---------------------------- MODULE Spec2Model ----------------------------
(***************************************************************************)
(* web-sqlite: the worker promiser (worker.ts), the typed operations and   *)
(* the transaction coordinator (exec.ts), and the Database interface       *)
(* (main.ts), run against a worker that executes envelopes in arrival      *)
(* order on an engine with BEGIN / COMMIT / ROLLBACK semantics.            *)
(***************************************************************************)
EXTENDS Integers, Sequences, FiniteSets, TLC

(***************************************************************************)
(* Bounds of the model.                                                    *)
(***************************************************************************)
MaxCalls == 2          \* API calls issued on one Database in SpecConc
MaxStmts == 2          \* statements in one transaction() call
MaxLead == 2           \* whitespace characters in front of a classified text

(***************************************************************************)
(* Program constants.                                                      *)
(***************************************************************************)
TimeoutMs == 30000     \* setTimeout(..., 30000)

Calls == 1..MaxCalls

(***************************************************************************)
(* SQL text is a sequence of one-character strings.                        *)
(***************************************************************************)
Whitespace == {" ", "\t", "\n"}

UpperChars == <<"A","B","C","D","E","F","G","H","I","J","K","L","M",
                "N","O","P","Q","R","S","T","U","V","W","X","Y","Z">>
LowerChars == <<"a","b","c","d","e","f","g","h","i","j","k","l","m",
                "n","o","p","q","r","s","t","u","v","w","x","y","z">>

\* the lower-case letter of each upper-case letter
Lowered ==
  [ch \in {UpperChars[i] : i \in 1..Len(UpperChars)} |->
     LowerChars[CHOOSE i \in 1..Len(UpperChars) : UpperChars[i] = ch]]

\* String.prototype.toLowerCase, one character
LowerChar(ch) == IF ch \in DOMAIN Lowered THEN Lowered[ch] ELSE ch

\* a lower-casing that leaves the text as it is
ToLowerCaseSkipped(s) == s

\* String.prototype.toLowerCase
ToLowerCase(s) == [i \in 1..Len(s) |-> LowerChar(s[i])]

\* String.prototype.trimStart
RECURSIVE TrimStart(_)
TrimStart(s) ==
  IF s # <<>> /\ Head(s) \in Whitespace THEN TrimStart(Tail(s)) ELSE s

\* String.prototype.trimEnd
RECURSIVE TrimEnd(_)
TrimEnd(s) ==
  IF s # <<>> /\ s[Len(s)] \in Whitespace
    THEN TrimEnd(SubSeq(s, 1, Len(s) - 1)) ELSE s

\* String.prototype.trim: strips leading and trailing whitespace
Trim(s) == TrimEnd(TrimStart(s))

\* the regular expression /^<kw>/, without the whitespace after the keyword
StartsWithKeywordLoose(s, kw) ==
  /\ Len(s) >= Len(kw)
  /\ SubSeq(s, 1, Len(kw)) = kw

\* the regular expression /^<kw>\s/ tested against s
StartsWithKeyword(s, kw) ==
  /\ Len(s) > Len(kw)
  /\ SubSeq(s, 1, Len(kw)) = kw
  /\ s[Len(kw) + 1] \in Whitespace

KwSelect == <<"s","e","l","e","c","t">>
KwInsert == <<"i","n","s","e","r","t">>
KwUpdate == <<"u","p","d","a","t","e">>
KwDelete == <<"d","e","l","e","t","e">>
KwCreate == <<"c","r","e","a","t","e">>
KwDrop   == <<"d","r","o","p">>
KwAlter  == <<"a","l","t","e","r">>

\* analyzeSqlOperation (exec.ts)
analyzeSqlOperation(sql) ==
  LET normalizedSql == ToLowerCase(Trim(sql))
  IN  IF StartsWithKeyword(normalizedSql, KwSelect) THEN "select"
      ELSE IF StartsWithKeyword(normalizedSql, KwInsert) THEN "insert"
      ELSE IF StartsWithKeyword(normalizedSql, KwUpdate) THEN "update"
      ELSE IF StartsWithKeyword(normalizedSql, KwDelete) THEN "delete"
      ELSE IF \/ StartsWithKeyword(normalizedSql, KwCreate)
              \/ StartsWithKeyword(normalizedSql, KwDrop)
              \/ StartsWithKeyword(normalizedSql, KwAlter) THEN "ddl"
      ELSE "utility"

\* detectOperationType (exec.ts)
detectOperationType(sql) ==
  LET opType == analyzeSqlOperation(sql)
  IN  IF opType = "select" THEN "query"
      ELSE IF opType \in {"insert", "update", "delete"} THEN "execute"
      ELSE "run"


(***************************************************************************)
(* JavaScript values.  Every value is a record tagged with its kind, so    *)
(* that undefined, null, numbers, arrays and objects can be told apart.    *)
(***************************************************************************)
Undefined == [t |-> "undefined"]
Null      == [t |-> "null"]
Num(n)    == [t |-> "number", n |-> n]
Arr(v)    == [t |-> "array", v |-> v]
JsSymbol  == [t |-> "symbol"]
JsDate    == [t |-> "Date", iso |-> <<"1970-01-01T00:00:00.000Z">>]
Obj(v)    == [t |-> "object", v |-> v]
Str(chars) == [t |-> "string", s |-> chars]

\* ToBoolean
Truthy(x) ==
  IF x.t \in {"undefined", "null"} THEN FALSE
  ELSE IF x.t = "number" THEN x.n # 0
  ELSE IF x.t = "string" THEN x.s # <<>>
  ELSE TRUE

\* the operator a || b
JsOr(a, b) == IF Truthy(a) THEN a ELSE b

\* typeof
TypeOf(x) ==
  IF x.t \in {"undefined", "number", "string", "bigint", "boolean", "symbol"}
    THEN x.t
    ELSE "object"

\* Array.isArray
IsArray(x) == x.t = "array"

(***************************************************************************)
(* Errors (errors.ts).  message is the list of the text's parts, contexts  *)
(* first: `${context}: ${message}`.                                        *)
(***************************************************************************)
\* new WebSQLiteError(message)
WebSQLiteError(msg) ==
  [t |-> "error", name |-> "WebSQLiteError", message |-> <<msg>>,
   cause |-> Undefined]

\* a TypeError raised by the runtime: property access on undefined
TypeError == [t |-> "error", name |-> "TypeError",
              message |-> <<"Cannot read properties of undefined">>,
              cause |-> Undefined]

\* an error that keeps the message and drops the cause
createWorkerErrorNoCause(error, context) ==
  [t |-> "error", name |-> "WebSQLiteError",
   message |-> <<context>> \o error.message, cause |-> Undefined]

\* createWorkerError (errors.ts)
createWorkerError(error, context) ==
  [t |-> "error", name |-> "WebSQLiteError",
   message |-> <<context>> \o error.message, cause |-> error]

\* isValidParameters (errors.ts)
isValidParameters(params) ==
  IsArray(params) \/ (TypeOf(params) = "object" /\ params # Null)

\* validateSqlInput (errors.ts): the error it throws, or Undefined
validateSqlInput(sql, parameters) ==
  IF sql = <<>> THEN WebSQLiteError("SQL must be a non-empty string")
  ELSE IF parameters # Undefined /\ ~isValidParameters(parameters)
    THEN WebSQLiteError("Invalid parameters format")
  ELSE Undefined

(***************************************************************************)
(* Parameters (parameters.ts).                                             *)
(***************************************************************************)
\* one value passes the every() callback of validateParameterTypes
SupportedValue(value) ==
  \/ value = Null
  \/ TypeOf(value) \in {"string", "number", "bigint", "boolean"}
  \/ value.t = "Uint8Array"
  \/ value.t = "Date"
  \/ value.t \in {"Uint8Array", "DataView"}

\* a validation that lets every value through
validateParameterTypesLax(parameters) == TRUE

\* validateParameterTypes (parameters.ts); array or object parameters
validateParameterTypes(parameters) ==
  \A i \in 1..Len(parameters.v) : SupportedValue(parameters.v[i])

\* bindParameters (parameters.ts)
bindParameters(parameters) ==
  IF ~Truthy(parameters) THEN Undefined ELSE parameters

\* processParameterValue (parameters.ts); nothing calls it
processParameterValue(value) ==
  IF value.t = "Date" THEN Str(value.iso)
  ELSE IF value.t = "ArrayBuffer" THEN [t |-> "Uint8Array"]
  ELSE value


(***************************************************************************)
(* Texts.                                                                  *)
(***************************************************************************)
SqlBegin    == <<"B","E","G","I","N"," ","T","R","A","N","S","A","C","T","I","O","N">>
SqlCommit   == <<"C","O","M","M","I","T">>
SqlRollback == <<"R","O","L","L","B","A","C","K">>

SqlSelect   == <<"s","e","l","e","c","t"," ","1">>
SqlInsert   == <<"I","N","S","E","R","T"," ","a">>
SqlUpdate   == <<" ","u","p","d","a","t","e","\t","a">>
SqlDelete   == <<"D","e","l","e","t","e"," ","a">>
SqlCreate   == <<"c","r","e","a","t","e"," ","t">>
SqlPragma   == <<"p","r","a","g","m","a">>
SqlBare     == <<"s","e","l","e","c","t">>
SqlBlank    == <<" ">>
SqlEmpty    == <<>>

\* the SQL texts the callers pass
SqlTexts == {SqlSelect, SqlInsert, SqlUpdate, SqlDelete, SqlCreate, SqlPragma,
             SqlBare, SqlBlank, SqlEmpty}

\* the bound parameters the callers pass: none, a positional list, a list
\* holding a value of no supported type, a value that is no list, null, a
\* list holding a Date, and named parameters one of which has no supported
\* type
ParamSamples == {Undefined, Arr(<<Num(1)>>), Arr(<<JsSymbol>>), Num(5), Null,
                 Arr(<<Num(1), JsDate>>), Obj(<<Num(1), JsSymbol>>)}

NoType == "undefined"   \* a TransactionStatement without its optional type

(***************************************************************************)
(* State.                                                                  *)
(***************************************************************************)
VARIABLES
  calls,            \* the API calls made on the Database, by call slot
  messageId,        \* let messageId (worker.ts)
  pendingMessages,  \* const pendingMessages (worker.ts): messageId -> call
  timers,           \* the setTimeout timers not yet run, in the order set
  posted,           \* every envelope handed to worker.postMessage, in order
  nproc,            \* how many of them the worker has executed
  outbox,           \* the worker's messages not yet delivered to onmessage
  db,               \* the engine: committed and uncommitted changes
  replied,          \* the message the worker produced for each messageId
  session,          \* the webSqlite() call: the worker, the handshake, the open
  probe,            \* a text handed to the classifier and its category
  second            \* the session of a second webSqlite() call

vars == <<calls, messageId, pendingMessages, timers, posted, nproc, outbox,
          db, replied, session, probe, second>>

\* `msg-${n}`
MsgId(n) == [t |-> "string", s |-> <<"msg-", n>>]

NoCall ==
  [op |-> "none", sql |-> <<>>, parameters |-> Undefined, stmts |-> <<>>,
   pc |-> "idle", step |-> "", idx |-> 0, results |-> <<>>,
   error |-> Undefined, msgId |-> Undefined, outcome |-> "none",
   value |-> Undefined, sent |-> <<>>, settled |-> <<>>,
   failure |-> [at |-> "", k |-> 0], afterClose |-> FALSE,
   pendingAtCall |-> {}]

\* Of a call, the code keeps op, sql, parameters, stmts, the position (pc,
\* step, idx), results, error and msgId.  The other fields record what
\* happened: sent, the messageIds of the envelopes the call posted; settled,
\* whether each promise it awaited was resolved; failure, where a transaction
\* entered its catch block; afterClose, whether a close() had resolved when
\* the call was made; pendingAtCall, the requests pending at that moment.

AppFile == <<"a","p","p",".","d","b">>

\* the Database interface webSqlite() resolves with
Database == [t |-> "object", interface |-> "Database"]

\* Of the webSqlite() call, the code keeps its position (phase), the worker
\* it constructed, isInitialized and filename.  faulted tells that the worker
\* raised an error event; sent, the messageIds of the envelopes it posted;
\* hasWorker and hasOPFS, what the browser of the call offers.
NoSession ==
  [phase |-> "none", outcome |-> "none", value |-> Undefined,
   worker |-> FALSE, isInitialized |-> FALSE, filename |-> Undefined,
   faulted |-> FALSE, sent |-> <<>>, hasWorker |-> TRUE, hasOPFS |-> TRUE]

\* the webSqlite() call once it has resolved with the Database
OpenedSession ==
  [phase |-> "done", outcome |-> "resolved", value |-> Database,
   worker |-> TRUE, isInitialized |-> TRUE, filename |-> Str(AppFile),
   faulted |-> FALSE, sent |-> <<MsgId(1)>>, hasWorker |-> TRUE,
   hasOPFS |-> TRUE]

\* no text has been handed to the classifier
NoProbe == [sql |-> <<>>, done |-> FALSE, category |-> ""]

\* Of a second webSqlite() call, the state its own initializeWorkerPromiser
\* keeps (P: messageId, pending map, envelopes posted to its worker, timers),
\* the call made on its Database, and its worker (the messages it posted
\* back, the envelopes it executed, its engine).  No second call was made:
NoSecond ==
  [P |-> [messageId |-> 0, pending |-> << >>, posted |-> << >>,
          timers |-> << >>],
   call |-> NoCall, outbox |-> {}, nproc |-> 0,
   db |-> [open |-> FALSE, committed |-> {}, working |-> {}, inTxn |-> FALSE]]

\* worker.postMessage({ type: "start" })
StartEnvelope == [type |-> "start", args |-> Undefined, messageId |-> Undefined]

\* the envelope openDatabase sent (worker.ts): the session is open
OpenEnvelope ==
  [type |-> "open",
   args |-> [filename |-> Str(AppFile), vfs |-> "opfs"],
   messageId |-> MsgId(1)]

\* the state in which webSqlite() has resolved: the worker answered the start
\* signal and the open request msg-1, and the timer of msg-1 has run
Init ==
  /\ calls = [c \in Calls |-> NoCall]
  /\ messageId = 1
  /\ pendingMessages = << >>
  /\ timers = << >>
  /\ posted = <<StartEnvelope, OpenEnvelope>>
  /\ nproc = 2
  /\ outbox = {}
  /\ db = [open |-> TRUE, committed |-> {}, working |-> {}, inTxn |-> FALSE]
  /\ replied = << >>
  /\ session = OpenedSession
  /\ probe = NoProbe
  /\ second = NoSecond

\* the state before webSqlite() is called: no worker, no database
InitOpen ==
  /\ calls = [c \in Calls |-> NoCall]
  /\ messageId = 0
  /\ pendingMessages = << >>
  /\ timers = << >>
  /\ posted = << >>
  /\ nproc = 0
  /\ outbox = {}
  /\ db = [open |-> FALSE, committed |-> {}, working |-> {}, inTxn |-> FALSE]
  /\ replied = << >>
  /\ session = NoSession
  /\ probe = NoProbe
  /\ second = NoSecond

(***************************************************************************)
(* The promiser (worker.ts, createPromiserFunction).  P is the promiser's  *)
(* state: [messageId, pending, posted, timers].                            *)
(***************************************************************************)
CurP == [messageId |-> messageId, pending |-> pendingMessages,
         posted |-> posted, timers |-> timers]

SetP(P) ==
  /\ messageId' = P.messageId
  /\ pendingMessages' = P.pending
  /\ posted' = P.posted
  /\ timers' = P.timers

\* Map.prototype.delete
MapDelete(m, k) == [x \in DOMAIN m \ {k} |-> m[x]]

\* a promiser that takes the lowest identifier not in the pending map
promiserReusing(P, c, type, args) ==
  LET n     == CHOOSE k \in 1..(P.messageId + 1) :
                 /\ MsgId(k) \notin DOMAIN P.pending
                 /\ \A j \in 1..(k - 1) : MsgId(j) \in DOMAIN P.pending
      msgId == MsgId(n)
  IN  [messageId |-> IF n > P.messageId THEN n ELSE P.messageId,
       pending   |-> (msgId :> c) @@ P.pending,
       posted    |-> Append(P.posted,
                            [type |-> type, args |-> args, messageId |-> msgId]),
       timers    |-> Append(P.timers, [id |-> msgId, delay |-> TimeoutMs])]

\* the promiser function: call c sends one envelope
promiser(P, c, type, args) ==
  LET msgId == MsgId(P.messageId + 1)
  IN  [messageId |-> P.messageId + 1,
       pending   |-> (msgId :> c) @@ P.pending,
       posted    |-> Append(P.posted,
                            [type |-> type, args |-> args, messageId |-> msgId]),
       timers    |-> Append(P.timers, [id |-> msgId, delay |-> TimeoutMs])]

\* executeWorkerRequest (exec.ts) up to its await: the error it throws
\* before sending (or Undefined) and the promiser's state after it
executeWorkerRequest(P, c, sql, parameters, forceResultRows) ==
  LET invalid == validateSqlInput(sql, parameters)
      config  == [sql |-> sql, bind |-> bindParameters(parameters),
                  rowMode |-> "object",
                  resultRows |-> IF forceResultRows THEN Arr(<<>>) ELSE Undefined]
  IN  IF invalid # Undefined
        THEN [thrown |-> invalid, P |-> P]
      ELSE IF Truthy(parameters) /\ ~validateParameterTypes(parameters)
        THEN [thrown |-> createWorkerError(
                           [t |-> "error", name |-> "Error",
                            message |-> <<"Invalid parameter types">>,
                            cause |-> Undefined],
                           "Parameter validation"),
              P |-> P]
      ELSE [thrown |-> Undefined, P |-> promiser(P, c, "exec", config)]


(***************************************************************************)
(* The typed operations (exec.ts) and close (main.ts, worker.ts).          *)
(***************************************************************************)
Resolved(call, v) ==
  [call EXCEPT !.pc = "done", !.outcome = "resolved", !.value = v,
               !.msgId = Undefined]

Rejected(call, e) ==
  [call EXCEPT !.pc = "done", !.outcome = "rejected", !.value = e,
               !.msgId = Undefined]

\* the call is suspended at the await of the envelope P sent last
Awaiting(call, P) ==
  LET id == P.posted[Len(P.posted)].messageId
  IN  [call EXCEPT !.pc = "await", !.msgId = id, !.sent = Append(@, id)]

\* a close() of this Database has resolved
ClosedNow == \E d \in Calls : calls[d].op = "close" /\ calls[d].outcome = "resolved"

\* call slot c is free; the slots are used in order
Free(c) ==
  /\ calls[c].op = "none"
  /\ \A d \in Calls : d < c => calls[d].op # "none"

NewCall(op, sql, parameters, stmts) ==
  [NoCall EXCEPT !.op = op, !.sql = sql, !.parameters = parameters,
                 !.stmts = stmts, !.afterClose = ClosedNow,
                 !.pendingAtCall = DOMAIN pendingMessages]

\* the error of the operation-type check of query() and queryOne()
ExpectedSelect(opType) ==
  createWorkerError(
    [t |-> "error", name |-> "Error",
     message |-> <<"Expected SELECT statement, got", opType>>,
     cause |-> Undefined],
    "SQL operation type mismatch")

\* the error of the operation-type check of execute()
ExpectedModification(opType) ==
  createWorkerError(
    [t |-> "error", name |-> "Error",
     message |-> <<"Expected INSERT/UPDATE/DELETE statement, got", opType>>,
     cause |-> Undefined],
    "SQL operation type mismatch")

\* the error of the operation-type check of run()
UseQuery ==
  createWorkerError(
    [t |-> "error", name |-> "Error",
     message |-> <<"Use query() or queryOne() for SELECT statements">>,
     cause |-> Undefined],
    "SQL operation type mismatch")

\* query() letting a statement of the execute group through
QueryCheckLoose(sql) ==
  LET opType == analyzeSqlOperation(sql)
  IN  IF opType \notin {"select", "insert", "update", "delete"}
        THEN ExpectedSelect(opType) ELSE Undefined

\* the operation-type check of each typed operation: the error it throws, or
\* Undefined
QueryCheck(sql) ==
  LET opType == analyzeSqlOperation(sql)
  IN  IF opType # "select" THEN ExpectedSelect(opType) ELSE Undefined

ExecuteCheck(sql) ==
  LET opType == analyzeSqlOperation(sql)
  IN  IF opType \notin {"insert", "update", "delete"}
        THEN ExpectedModification(opType) ELSE Undefined

RunCheck(sql) ==
  LET opType == analyzeSqlOperation(sql)
  IN  IF opType = "select" THEN UseQuery ELSE Undefined

\* a typed operation from its call to its first await, or to the throw
StartOperation(c, op, mismatch, sql, parameters, forceResultRows) ==
  LET call == NewCall(op, sql, parameters, <<>>)
      req  == executeWorkerRequest(CurP, c, sql, parameters, forceResultRows)
  IN  /\ Free(c)
      /\ session.outcome = "resolved"
      /\ IF mismatch # Undefined
           THEN /\ calls' = [calls EXCEPT ![c] = Rejected(call, mismatch)]
                /\ UNCHANGED <<messageId, pendingMessages, posted, timers>>
         ELSE IF req.thrown # Undefined
           THEN /\ calls' = [calls EXCEPT ![c] = Rejected(call, req.thrown)]
                /\ UNCHANGED <<messageId, pendingMessages, posted, timers>>
         ELSE /\ calls' = [calls EXCEPT ![c] = Awaiting(call, req.P)]
              /\ SetP(req.P)
      /\ UNCHANGED <<nproc, outbox, db, replied, session, probe, second>>

\* createQueryFunction
Query(c, sql, parameters) ==
  StartOperation(c, "query", QueryCheck(sql), sql, parameters, TRUE)

\* createQueryOneFunction
QueryOne(c, sql, parameters) ==
  StartOperation(c, "queryOne", QueryCheck(sql), sql, parameters, TRUE)

\* createExecuteFunction
Execute(c, sql, parameters) ==
  StartOperation(c, "execute", ExecuteCheck(sql), sql, parameters, FALSE)

\* run() asking the worker to collect result rows
RunCollecting(c, sql, parameters) ==
  StartOperation(c, "run", RunCheck(sql), sql, parameters, TRUE)

\* createRunFunction
Run(c, sql, parameters) ==
  StartOperation(c, "run", RunCheck(sql), sql, parameters, FALSE)

\* Database.close -> closeDatabase: sends the close envelope
Close(c) ==
  LET P == promiser(CurP, c, "close", [none |-> Undefined])
  IN  /\ Free(c)
      /\ session.outcome = "resolved"
      /\ calls' = [calls EXCEPT
                     ![c] = Awaiting(NewCall("close", <<>>, Undefined, <<>>), P)]
      /\ SetP(P)
      /\ UNCHANGED <<nproc, outbox, db, replied, session, probe, second>>

\* the modification result without its defaults
ModificationResultNoDefault(r) ==
  [t |-> "object",
   changes |-> JsOr(r.changes, r.changeCount),
   lastInsertRowid |-> JsOr(r.lastInsertRowid, r.lastInsertRowId)]

\* { changes: r.changes || r.changeCount || 0,
\*   lastInsertRowid: r.lastInsertRowid || r.lastInsertRowId || null }
ModificationResult(r) ==
  [t |-> "object",
   changes |-> JsOr(JsOr(r.changes, r.changeCount), Num(0)),
   lastInsertRowid |-> JsOr(JsOr(r.lastInsertRowid, r.lastInsertRowId), Null)]

\* Array.isArray(r.resultRows) ? r.resultRows : []
RowsOf(r) == IF IsArray(r.resultRows) THEN r.resultRows ELSE Arr(<<>>)

\* the first row or null
FirstRowOf(r) ==
  IF IsArray(r.resultRows) /\ Len(r.resultRows.v) > 0
    THEN r.resultRows.v[1] ELSE Null


(***************************************************************************)
(* transaction() (exec.ts, createTransactionFunction).  Each operator runs *)
(* the coordinator from one point to its next await and yields the call    *)
(* and the promiser's state there.                                         *)
(***************************************************************************)
\* a catch block that sends COMMIT where ROLLBACK belongs
TxnCatchCommits(call, P, c, error, at) ==
  LET req == executeWorkerRequest(P, c, SqlCommit, Undefined, FALSE)
  IN  [call |-> Awaiting([call EXCEPT !.step = "rollback", !.error = error,
                                      !.failure = [at |-> at, k |-> call.idx]],
                         req.P),
       P |-> req.P]

\* the catch block: remember the error, send ROLLBACK.  at tells where the
\* error was thrown: "validation" (statement idx, before it was sent),
\* "statement" (the request of statement idx was rejected), "result" (the
\* answer of statement idx carried no result) or "commit"
TxnCatch(call, P, c, error, at) ==
  LET req == executeWorkerRequest(P, c, SqlRollback, Undefined, FALSE)
  IN  [call |-> Awaiting([call EXCEPT !.step = "rollback", !.error = error,
                                      !.failure = [at |-> at, k |-> call.idx]],
                         req.P),
       P |-> req.P]

\* after the loop: send COMMIT
TxnCommit(call, P, c) ==
  LET req == executeWorkerRequest(P, c, SqlCommit, Undefined, FALSE)
  IN  [call |-> Awaiting([call EXCEPT !.step = "commit"], req.P), P |-> req.P]

\* a routing that always asks the classifier
StmtOpTypeDetected(stmt) == detectOperationType(stmt.sql)

\* type || detectOperationType(sql)
StmtOpType(stmt) ==
  IF stmt.type # NoType THEN stmt.type ELSE detectOperationType(stmt.sql)

\* a loop that sends statement i and the one after it without awaiting
\* the first
TxnStatementEager(call, P, c, i) ==
  LET stmt == call.stmts[i]
      req  == executeWorkerRequest(P, c, stmt.sql, stmt.parameters,
                                   StmtOpType(stmt) = "query")
      more == IF i < Len(call.stmts) /\ req.thrown = Undefined
                THEN promiser(req.P, c, "exec", Undefined)
                ELSE req.P
  IN  IF req.thrown # Undefined
        THEN TxnCatch([call EXCEPT !.idx = i], P, c, req.thrown, "validation")
        ELSE [call |-> Awaiting([call EXCEPT !.step = "stmt", !.idx = i], more),
              P |-> more]

\* one iteration of the loop, up to the await of statement i
TxnStatement(call, P, c, i) ==
  LET stmt == call.stmts[i]
      req  == executeWorkerRequest(P, c, stmt.sql, stmt.parameters,
                                   StmtOpType(stmt) = "query")
  IN  IF req.thrown # Undefined
        THEN TxnCatch([call EXCEPT !.idx = i], P, c, req.thrown, "validation")
        ELSE [call |-> Awaiting([call EXCEPT !.step = "stmt", !.idx = i], req.P),
              P |-> req.P]

\* the branches' results with the execute branch left without its result
StmtResultNoExecute(opType, r) ==
  IF opType = "query" THEN RowsOf(r) ELSE Undefined

\* the branch's result for the worker's result r of a statement
StmtResult(opType, r) ==
  IF opType = "query" THEN RowsOf(r)
  ELSE IF opType = "execute" THEN ModificationResult(r)
  ELSE Undefined

\* statement call.idx was answered with r: push its result, go on
TxnAfterStatement(call, P, c, r) ==
  LET opType == StmtOpType(call.stmts[call.idx])
      next   == [call EXCEPT !.results = Append(@, StmtResult(opType, r))]
  IN  IF opType \in {"query", "execute"} /\ r = Undefined
        THEN TxnCatch(call, P, c, TypeError, "result")
      ELSE IF call.idx < Len(call.stmts)
        THEN TxnStatement(next, P, c, call.idx + 1)
      ELSE TxnCommit(next, P, c)

\* a coordinator whose BEGIN is inside the try block
TxnResumeBeginCaught(call, P, c, ok, v) ==
  LET failure == createWorkerError(v, "SQL execution")
  IN  IF call.step = "begin"
        THEN IF ok THEN TxnStatement(call, P, c, 1)
                   ELSE TxnCatch(call, P, c, failure, "begin")
      ELSE IF call.step = "stmt"
        THEN IF ok THEN TxnAfterStatement(call, P, c, v)
                   ELSE TxnCatch(call, P, c, failure, "statement")
      ELSE IF call.step = "commit"
        THEN IF ok THEN [call |-> Resolved(call, Arr(call.results)), P |-> P]
                   ELSE TxnCatch(call, P, c, failure, "commit")
      ELSE [call |-> Rejected(call,
                       createWorkerError(call.error, "Transaction execution")),
            P |-> P]

\* a coordinator whose COMMIT is outside the try block
TxnResumeCommitUncaught(call, P, c, ok, v) ==
  LET failure == createWorkerError(v, "SQL execution")
  IN  IF call.step = "begin"
        THEN IF ok THEN TxnStatement(call, P, c, 1)
                   ELSE [call |-> Rejected(call, failure), P |-> P]
      ELSE IF call.step = "stmt"
        THEN IF ok THEN TxnAfterStatement(call, P, c, v)
                   ELSE TxnCatch(call, P, c, failure, "statement")
      ELSE IF call.step = "commit"
        THEN IF ok THEN [call |-> Resolved(call, Arr(call.results)), P |-> P]
                   ELSE [call |-> Rejected([call EXCEPT
                                     !.error = failure,
                                     !.failure = [at |-> "commit", k |-> call.idx]],
                                   failure),
                         P |-> P]
      ELSE [call |-> Rejected(call,
                       createWorkerError(call.error, "Transaction execution")),
            P |-> P]

\* a coordinator that sends COMMIT again when COMMIT failed
TxnResumeRetrying(call, P, c, ok, v) ==
  LET failure == createWorkerError(v, "SQL execution")
  IN  IF call.step = "begin"
        THEN IF ok THEN TxnStatement(call, P, c, 1)
                   ELSE [call |-> Rejected(call, failure), P |-> P]
      ELSE IF call.step = "stmt"
        THEN IF ok THEN TxnAfterStatement(call, P, c, v)
                   ELSE TxnCatch(call, P, c, failure, "statement")
      ELSE IF call.step = "commit"
        THEN IF ok THEN [call |-> Resolved(call, Arr(call.results)), P |-> P]
                   ELSE TxnCommit(call, P, c)
      ELSE [call |-> Rejected(call,
                       createWorkerError(call.error, "Transaction execution")),
            P |-> P]

\* a coordinator that throws the error of a failed ROLLBACK
TxnResumeMasking(call, P, c, ok, v) ==
  LET failure == createWorkerError(v, "SQL execution")
  IN  IF call.step = "begin"
        THEN IF ok THEN TxnStatement(call, P, c, 1)
                   ELSE [call |-> Rejected(call, failure), P |-> P]
      ELSE IF call.step = "stmt"
        THEN IF ok THEN TxnAfterStatement(call, P, c, v)
                   ELSE TxnCatch(call, P, c, failure, "statement")
      ELSE IF call.step = "commit"
        THEN IF ok THEN [call |-> Resolved(call, Arr(call.results)), P |-> P]
                   ELSE TxnCatch(call, P, c, failure, "commit")
      ELSE [call |-> Rejected(call,
                       createWorkerError(IF ok THEN call.error ELSE failure,
                                         "Transaction execution")),
            P |-> P]

\* the coordinator resumes: its awaited request was resolved (ok) with v or
\* rejected with v
TxnResume(call, P, c, ok, v) ==
  LET failure == createWorkerError(v, "SQL execution")
  IN  IF call.step = "begin"
        THEN IF ok THEN TxnStatement(call, P, c, 1)
                   ELSE [call |-> Rejected(call, failure), P |-> P]
      ELSE IF call.step = "stmt"
        THEN IF ok THEN TxnAfterStatement(call, P, c, v)
                   ELSE TxnCatch(call, P, c, failure, "statement")
      ELSE IF call.step = "commit"
        THEN IF ok THEN [call |-> Resolved(call, Arr(call.results)), P |-> P]
                   ELSE TxnCatch(call, P, c, failure, "commit")
      ELSE [call |-> Rejected(call,
                       createWorkerError(call.error, "Transaction execution")),
            P |-> P]

\* a transaction() that begins without looking at its statements
TransactionUnchecked(c, statements) ==
  LET stmts == IF IsArray(statements) THEN statements.v ELSE <<>>
      call == [NewCall("transaction", <<>>, Undefined, stmts)
                 EXCEPT !.parameters = statements]
      req  == executeWorkerRequest(CurP, c, SqlBegin, Undefined, FALSE)
  IN  /\ Free(c)
      /\ session.outcome = "resolved"
      /\ calls' = [calls EXCEPT
                     ![c] = Awaiting([call EXCEPT !.step = "begin"], req.P)]
      /\ SetP(req.P)
      /\ UNCHANGED <<nproc, outbox, db, replied, session, probe, second>>

\* transaction(statements), to the await of BEGIN TRANSACTION or the throw
Transaction(c, statements) ==
  LET stmts == IF IsArray(statements) THEN statements.v ELSE <<>>
      call == [NewCall("transaction", <<>>, Undefined, stmts)
                 EXCEPT !.parameters = statements]
      req  == executeWorkerRequest(CurP, c, SqlBegin, Undefined, FALSE)
  IN  /\ Free(c)
      /\ session.outcome = "resolved"
      /\ IF ~IsArray(statements) \/ Len(stmts) = 0
           THEN /\ calls' = [calls EXCEPT ![c] = Rejected(call,
                     createWorkerError(
                       [t |-> "error", name |-> "Error",
                        message |-> <<"Transaction requires at least one statement">>,
                        cause |-> Undefined],
                       "Transaction validation"))]
                /\ UNCHANGED <<messageId, pendingMessages, posted, timers>>
           ELSE /\ calls' = [calls EXCEPT
                     ![c] = Awaiting([call EXCEPT !.step = "begin"], req.P)]
                /\ SetP(req.P)
      /\ UNCHANGED <<nproc, outbox, db, replied, session, probe, second>>

(***************************************************************************)
(* A suspended call resumes when the promise it awaits settles.            *)
(***************************************************************************)
\* a typed operation after its await
OperationResume(call, ok, v) ==
  IF ~ok THEN Rejected(call, createWorkerError(v, "SQL execution"))
  ELSE IF call.op = "run" THEN Resolved(call, Undefined)
  ELSE IF v = Undefined THEN Rejected(call, TypeError)
  ELSE IF call.op = "query" THEN Resolved(call, RowsOf(v))
  ELSE IF call.op = "queryOne" THEN Resolved(call, FirstRowOf(v))
  ELSE Resolved(call, ModificationResult(v))

\* closeDatabase after its await
CloseResume(call, ok, v) ==
  IF ok THEN Resolved(call, Undefined)
        ELSE Rejected(call, createWorkerError(v, "Database close"))

Resume(awaiting, P, c, ok, v) ==
  LET call == [awaiting EXCEPT !.settled = Append(@, ok)]
  IN  IF call.op = "transaction" THEN TxnResume(call, P, c, ok, v)
      ELSE IF call.op = "close"
        THEN [call |-> CloseResume(call, ok, v), P |-> P]
      ELSE [call |-> OperationResume(call, ok, v), P |-> P]

\* the request that was sent first among those pending
OldestPending ==
  CHOOSE m \in DOMAIN pendingMessages :
    \A x \in DOMAIN pendingMessages : m.s[2] <= x.s[2]

\* openDatabase and webSqlite after the await of the open request
OpenResume(sess, ok, v) ==
  IF ok THEN [sess EXCEPT !.phase = "done", !.outcome = "resolved",
                          !.value = Database]
        ELSE [sess EXCEPT !.phase = "done", !.outcome = "rejected",
                          !.value = createWorkerError(v, "Database open")]

\* the continuation of the owner of a settled request: call c, or the
\* webSqlite() call (owner 0); P is the promiser's state at the settlement
Wake(P, c, ok, v) ==
  IF c = 0
    THEN /\ session' = OpenResume(session, ok, v)
         /\ SetP(P)
         /\ UNCHANGED calls
    ELSE LET r == Resume(calls[c], P, c, ok, v)
         IN  /\ calls' = [calls EXCEPT ![c] = r.call]
             /\ SetP(r.P)
             /\ UNCHANGED session

\* a settlement by issue order: the entry taken is the oldest one, whatever
\* messageId the message carries
SettleOldest(id, ok, v) ==
  Wake([CurP EXCEPT !.pending = MapDelete(pendingMessages, OldestPending)],
       pendingMessages[OldestPending], ok, v)

\* a settlement that leaves the entry in the map
SettleKeeping(id, ok, v) == Wake(CurP, pendingMessages[id], ok, v)

\* pending.resolve / pending.reject of the entry taken out of the map, and
\* the continuation it wakes
Settle(id, ok, v) ==
  Wake([CurP EXCEPT !.pending = MapDelete(pendingMessages, id)],
       pendingMessages[id], ok, v)

\* the ready signal of the worker
ReadyData ==
  [type |-> "sqlite3-api", messageId |-> Undefined,
   result |-> Str(<<"worker1-ready">>), error |-> Undefined]

\* openDatabase (worker.ts) to its await
openDatabase(P, filename) ==
  promiser(P, 0, "open", [filename |-> filename, vfs |-> "opfs"])

\* a handler that lets the ready signal pass unrecognised
HandshakenIgnored ==
  UNCHANGED <<session, calls, messageId, pendingMessages, posted, timers>>

\* the ready signal was recognised: isInitialized = true, resolve(promiser);
\* a webSqlite() call waiting for it goes on to openDatabase
Handshaken ==
  LET P == openDatabase(CurP, session.filename)
  IN  /\ IF session.phase = "handshake"
           THEN /\ session' = [session EXCEPT
                                 !.isInitialized = TRUE, !.phase = "opening",
                                 !.sent = Append(@, P.posted[Len(P.posted)].messageId)]
                /\ SetP(P)
           ELSE /\ session' = [session EXCEPT !.isInitialized = TRUE]
                /\ UNCHANGED <<messageId, pendingMessages, posted, timers>>
      /\ UNCHANGED calls

\* a handler that takes every message of type "sqlite3-api" for the ready
\* signal
OnMessageAnyApi(data) ==
  /\ data \in outbox
  /\ outbox' = outbox \ {data}
  /\ IF /\ ~session.isInitialized
        /\ data.type = "sqlite3-api"
       THEN Handshaken
     ELSE IF Truthy(data.messageId) /\ data.messageId \in DOMAIN pendingMessages
       THEN IF Truthy(data.error)
              THEN Settle(data.messageId, FALSE,
                          createWorkerError(data.error, "Worker execution"))
              ELSE Settle(data.messageId, TRUE, data.result)
       ELSE UNCHANGED <<calls, messageId, pendingMessages, posted, timers,
                        session>>
  /\ UNCHANGED <<nproc, db, replied, probe, second>>

\* worker.onmessage
OnMessage(data) ==
  /\ data \in outbox
  /\ outbox' = outbox \ {data}
  /\ IF /\ ~session.isInitialized
        /\ data.type = "sqlite3-api"
        /\ data.result = Str(<<"worker1-ready">>)
       THEN Handshaken
     ELSE IF Truthy(data.messageId) /\ data.messageId \in DOMAIN pendingMessages
       THEN IF Truthy(data.error)
              THEN Settle(data.messageId, FALSE,
                          createWorkerError(data.error, "Worker execution"))
              ELSE Settle(data.messageId, TRUE, data.result)
       ELSE UNCHANGED <<calls, messageId, pendingMessages, posted, timers,
                        session>>
  /\ UNCHANGED <<nproc, db, replied, probe, second>>

\* the error event of the worker
ErrorEvent == [t |-> "object", message |-> <<"Script error">>]

\* an error handler that rejects every pending request
OnErrorRejectingAll ==
  /\ session.worker
  /\ ~session.faulted
  /\ session' =
       IF ~session.isInitialized /\ session.phase = "handshake"
         THEN [session EXCEPT
                 !.faulted = TRUE, !.phase = "done", !.outcome = "rejected",
                 !.value = createWorkerError(ErrorEvent, "Worker initialization")]
         ELSE [session EXCEPT !.faulted = TRUE]
  /\ pendingMessages' = << >>
  /\ calls' = [c \in Calls |->
                 IF calls[c].pc = "await"
                   THEN Rejected([calls[c] EXCEPT !.settled = Append(@, FALSE)],
                                 createWorkerError(ErrorEvent, "Worker execution"))
                   ELSE calls[c]]
  /\ UNCHANGED <<messageId, timers, posted, nproc, outbox, db, replied, probe, second>>

\* an error handler that rejects nothing
OnErrorIgnoring ==
  /\ session.worker
  /\ ~session.faulted
  /\ session' = [session EXCEPT !.faulted = TRUE]
  /\ UNCHANGED <<calls, messageId, pendingMessages, timers, posted, nproc,
                 outbox, db, replied, probe, second>>

\* worker.onerror: the worker raised an error event
OnError ==
  /\ session.worker
  /\ ~session.faulted
  /\ session' =
       IF ~session.isInitialized /\ session.phase = "handshake"
         THEN [session EXCEPT
                 !.faulted = TRUE, !.phase = "done", !.outcome = "rejected",
                 !.value = createWorkerError(ErrorEvent, "Worker initialization")]
         ELSE [session EXCEPT !.faulted = TRUE]
  /\ UNCHANGED <<calls, messageId, pendingMessages, timers, posted, nproc,
                 outbox, db, replied, probe, second>>

\* the sequence s without its i-th element
SeqRemove(s, i) == SubSeq(s, 1, i - 1) \o SubSeq(s, i + 1, Len(s))

\* the timer timers[i] is due: no timer set before it with a delay that is
\* not longer is still waiting (the delays being equal, the oldest timer)
TimerDue(i) == \A j \in 1..(i - 1) : timers[j].delay > timers[i].delay

\* a timeout callback that rejects its request and leaves the entry in the
\* map
TimerFireLeaking(i) ==
  /\ i \in 1..Len(timers)
  /\ TimerDue(i)
  /\ LET id == timers[i].id
     IN  IF id \in DOMAIN pendingMessages
           THEN Wake([CurP EXCEPT !.timers = SeqRemove(timers, i)],
                     pendingMessages[id], FALSE,
                     WebSQLiteError("Worker operation timeout"))
           ELSE /\ timers' = SeqRemove(timers, i)
                /\ UNCHANGED <<calls, messageId, pendingMessages, posted,
                               session>>
  /\ UNCHANGED <<nproc, outbox, db, replied, probe, second>>

\* a timeout callback that rejects nothing
TimerFireIdle(i) ==
  /\ i \in 1..Len(timers)
  /\ TimerDue(i)
  /\ timers' = SeqRemove(timers, i)
  /\ UNCHANGED <<calls, messageId, pendingMessages, posted, session, nproc,
                 outbox, db, replied, probe, second>>

\* a timeout callback that rejects the oldest pending request instead of
\* looking up its own
TimerFireOldest(i) ==
  /\ i \in 1..Len(timers)
  /\ TimerDue(i)
  /\ IF DOMAIN pendingMessages # {}
       THEN LET id == OldestPending
            IN  Wake([CurP EXCEPT !.pending = MapDelete(pendingMessages, id),
                                  !.timers = SeqRemove(timers, i)],
                     pendingMessages[id], FALSE,
                     WebSQLiteError("Worker operation timeout"))
       ELSE /\ timers' = SeqRemove(timers, i)
            /\ UNCHANGED <<calls, messageId, pendingMessages, posted, session>>
  /\ UNCHANGED <<nproc, outbox, db, replied, probe, second>>

\* the setTimeout callback of the request timers[i].id
TimerFire(i) ==
  /\ i \in 1..Len(timers)
  /\ TimerDue(i)
  /\ LET id == timers[i].id
     IN  IF id \in DOMAIN pendingMessages
           THEN Wake([CurP EXCEPT !.pending = MapDelete(pendingMessages, id),
                                  !.timers = SeqRemove(timers, i)],
                     pendingMessages[id], FALSE,
                     WebSQLiteError("Worker operation timeout"))
           ELSE /\ timers' = SeqRemove(timers, i)
                /\ UNCHANGED <<calls, messageId, pendingMessages, posted,
                               session>>
  /\ UNCHANGED <<nproc, outbox, db, replied, probe, second>>

(***************************************************************************)
(* The worker and its engine: it executes the envelopes in arrival order.  *)
(* A change is named by the messageId of the statement that made it.       *)
(***************************************************************************)
\* what the engine takes a statement for
EngineKind(sql) ==
  LET n == ToLowerCase(Trim(sql))
  IN  IF n = ToLowerCase(SqlBegin) THEN "begin"
      ELSE IF n = ToLowerCase(SqlCommit) THEN "commit"
      ELSE IF n = ToLowerCase(SqlRollback) THEN "rollback"
      ELSE IF \/ StartsWithKeyword(n, KwInsert)
              \/ StartsWithKeyword(n, KwUpdate)
              \/ StartsWithKeyword(n, KwDelete) THEN "write"
      ELSE "other"

\* the inbound error message for the envelope env
ErrorData(env) ==
  [type |-> "error", messageId |-> env.messageId, result |-> Undefined,
   error |-> [t |-> "object", message |-> <<"SQLITE_ERROR">>,
              input |-> env.messageId]]

\* the inbound success message for the envelope env
ResultData(env, result) ==
  [type |-> env.type, messageId |-> env.messageId, result |-> result,
   error |-> Undefined]

ExecResult(rows, changes, changeCount, rowid, rowId) ==
  [t |-> "object", resultRows |-> rows, changes |-> changes,
   changeCount |-> changeCount, lastInsertRowid |-> rowid,
   lastInsertRowId |-> rowId]

\* the rows the engine may report for the k-th envelope
EngineRows(env, k) ==
  IF IsArray(env.args.resultRows)
    THEN {Arr(<<>>), Arr(<<[t |-> "object", id |-> k]>>), Undefined}
    ELSE {Undefined}

\* the results the engine may report for a successful statement: the change
\* count and the row id under either spelling, zero, or left out
EngineResults(env, k, kind) ==
  IF kind = "write"
    THEN {ExecResult(rows, Undefined, Undefined, Undefined, Undefined)
            : rows \in EngineRows(env, k)}
         \cup {ExecResult(Undefined, Num(1), Undefined, Num(k), Undefined),
               ExecResult(Undefined, Undefined, Num(1), Undefined, Num(k)),
               ExecResult(Undefined, Num(0), Undefined, Num(0), Undefined),
               Undefined}
  ELSE IF kind = "other"
    THEN {ExecResult(rows, Undefined, Undefined, Undefined, Undefined)
            : rows \in EngineRows(env, k)} \cup {Undefined}
  ELSE {ExecResult(Undefined, Undefined, Undefined, Undefined, Undefined)}

\* the engine after the statement of envelope env succeeded
EngineApply(d, env, kind) ==
  IF kind = "begin" THEN [d EXCEPT !.inTxn = TRUE, !.working = {}]
  ELSE IF kind = "commit"
    THEN [d EXCEPT !.inTxn = FALSE, !.working = {},
                   !.committed = @ \cup d.working]
  ELSE IF kind = "rollback" THEN [d EXCEPT !.inTxn = FALSE, !.working = {}]
  ELSE IF kind = "write"
    THEN IF d.inTxn THEN [d EXCEPT !.working = @ \cup {env.messageId}]
                    ELSE [d EXCEPT !.committed = @ \cup {env.messageId}]
  ELSE d

\* the statement can succeed in the engine's state
EngineCanSucceed(d, kind) ==
  /\ d.open
  /\ kind = "begin" => ~d.inTxn
  /\ kind \in {"commit", "rollback"} => d.inTxn

\* every outcome of the k-th envelope: the message sent back and the engine
\* after it.  Any statement may fail and then changes nothing.
WorkerOutcomes(d, env, k) ==
  IF env.type = "exec"
    THEN LET kind == EngineKind(env.args.sql)
         IN  {[data |-> ErrorData(env), db |-> d]}
             \cup (IF EngineCanSucceed(d, kind)
                     THEN {[data |-> ResultData(env, r),
                            db |-> EngineApply(d, env, kind)]
                             : r \in EngineResults(env, k, kind)}
                     ELSE {})
  ELSE IF env.type = "close"
    THEN {[data |-> ErrorData(env), db |-> d],
          [data |-> ResultData(env, [t |-> "object", filename |-> Undefined]),
           db |-> [d EXCEPT !.open = FALSE, !.inTxn = FALSE, !.working = {}]]}
  ELSE IF env.type = "open"
    THEN {[data |-> ErrorData(env), db |-> d],
          [data |-> ResultData(env, [t |-> "object",
                                     filename |-> env.args.filename]),
           db |-> [d EXCEPT !.open = TRUE]]}
  ELSE IF env.type = "start"
    THEN {[data |-> ReadyData, db |-> d]}
  ELSE {[data |-> ErrorData(env), db |-> d]}

\* the worker posts the answer of the next envelope
WorkerReplies(o) ==
  /\ outbox' = outbox \cup {o.data}
  /\ db' = o.db
  /\ replied' = IF posted[nproc + 1].messageId = Undefined
                  THEN replied
                  ELSE (posted[nproc + 1].messageId :> o.data) @@ replied
  /\ nproc' = nproc + 1
  /\ UNCHANGED <<calls, messageId, pendingMessages, posted, timers, session,
                 probe, second>>

WorkerStep ==
  /\ nproc < Len(posted)
  /\ ~session.faulted
  /\ \E o \in WorkerOutcomes(db, posted[nproc + 1], nproc + 1) :
       WorkerReplies(o)

(***************************************************************************)
(* webSqlite (main.ts): the capability checks, the worker, the handshake   *)
(* and the open request.                                                   *)
(***************************************************************************)
\* a check of the Worker primitive alone
validateBrowserSupportWorkerOnly(hasWorker, hasOPFS) ==
  IF ~hasWorker THEN WebSQLiteError("Web Workers not supported") ELSE Undefined

\* validateBrowserSupport (errors.ts): the error it throws, or Undefined
validateBrowserSupport(hasWorker, hasOPFS) ==
  IF ~hasWorker THEN WebSQLiteError("Web Workers not supported")
  ELSE IF ~hasOPFS
    THEN WebSQLiteError("Origin Private File System (OPFS) not supported")
  ELSE Undefined

\* the filenames the callers pass: a name, the empty string, a number, none
FilenameSamples == {Str(AppFile), Str(<<>>), Num(5), Undefined}

\* the filenames webSqlite() accepts
LiveFilenames == {Str(AppFile), Str(<<"t", ".", "d", "b">>)}

\* a webSqlite() that sends the open request without awaiting the handshake
WebSqliteEager(hasWorker, hasOPFS, ctorThrows, filename) ==
  LET unsupported == validateBrowserSupport(hasWorker, hasOPFS)
      called == [session EXCEPT !.filename = filename,
                                !.hasWorker = hasWorker, !.hasOPFS = hasOPFS]
      Reject(e) == [called EXCEPT !.phase = "done", !.outcome = "rejected",
                                  !.value = e]
  IN  /\ session.phase = "none"
      /\ IF unsupported # Undefined
           THEN /\ session' = Reject(unsupported)
                /\ UNCHANGED posted
         ELSE IF ~Truthy(filename) \/ TypeOf(filename) # "string"
           THEN /\ session' = Reject(
                       WebSQLiteError("Filename must be a non-empty string"))
                /\ UNCHANGED posted
         ELSE IF ctorThrows
           THEN /\ session' = Reject(
                       [WebSQLiteError("Failed to initialize database")
                          EXCEPT !.cause = [t |-> "error", name |-> "SecurityError",
                                            message |-> <<"new Worker">>,
                                            cause |-> Undefined]])
                /\ UNCHANGED posted
         ELSE LET P == openDatabase(
                         [CurP EXCEPT !.posted = Append(posted, StartEnvelope)],
                         filename)
              IN  /\ session' = [called EXCEPT
                                   !.phase = "opening", !.worker = TRUE,
                                   !.sent = <<P.posted[Len(P.posted)].messageId>>]
                  /\ posted' = P.posted
                  /\ messageId' = P.messageId
                  /\ pendingMessages' = P.pending
                  /\ timers' = P.timers
      /\ unsupported # Undefined \/ ~Truthy(filename)
           \/ TypeOf(filename) # "string" \/ ctorThrows
           => UNCHANGED <<messageId, pendingMessages, timers>>
      /\ UNCHANGED <<calls, nproc, outbox, db, replied, probe, second>>

\* webSqlite(filename) to its first await or to the throw, in a browser with
\* or without the Worker primitive and the OPFS store, and where new Worker()
\* throws or not
WebSqlite(hasWorker, hasOPFS, ctorThrows, filename) ==
  LET unsupported == validateBrowserSupport(hasWorker, hasOPFS)
      called == [session EXCEPT !.filename = filename,
                                !.hasWorker = hasWorker, !.hasOPFS = hasOPFS]
      Reject(e) == [called EXCEPT !.phase = "done", !.outcome = "rejected",
                                  !.value = e]
  IN  /\ session.phase = "none"
      /\ IF unsupported # Undefined
           THEN /\ session' = Reject(unsupported)
                /\ UNCHANGED posted
         ELSE IF ~Truthy(filename) \/ TypeOf(filename) # "string"
           THEN /\ session' = Reject(
                       WebSQLiteError("Filename must be a non-empty string"))
                /\ UNCHANGED posted
         ELSE IF ctorThrows
           THEN /\ session' = Reject(
                       [WebSQLiteError("Failed to initialize database")
                          EXCEPT !.cause = [t |-> "error", name |-> "SecurityError",
                                            message |-> <<"new Worker">>,
                                            cause |-> Undefined]])
                /\ UNCHANGED posted
         ELSE /\ session' = [called EXCEPT !.phase = "handshake",
                                           !.worker = TRUE]
              /\ posted' = Append(posted, StartEnvelope)
      /\ UNCHANGED <<calls, messageId, pendingMessages, timers, nproc, outbox,
                     db, replied, probe, second>>

(***************************************************************************)
(* Specifications.                                                         *)
(***************************************************************************)
\* the statements of the transactions the callers pass
StmtSamples ==
  {[sql |-> SqlInsert, parameters |-> Undefined, type |-> NoType],
   [sql |-> SqlSelect, parameters |-> Undefined, type |-> "query"],
   [sql |-> SqlCreate, parameters |-> Undefined, type |-> NoType],
   [sql |-> SqlInsert, parameters |-> Arr(<<JsSymbol>>), type |-> "execute"]}

StmtLists == UNION {[1..n -> StmtSamples] : n \in 0..MaxStmts}

\* the arguments the callers pass to transaction(): lists of statements, and
\* values that are no array
StatementArgs == {Arr(stmts) : stmts \in StmtLists} \cup {Undefined, Num(5)}

Environment ==
  \/ WorkerStep
  \/ \E data \in outbox : OnMessage(data)
  \/ \E i \in 1..Len(timers) : TimerFire(i)

\* one call on the Database, of any operation with any arguments
Next ==
  \/ \E sql \in SqlTexts, p \in ParamSamples : Query(1, sql, p)
  \/ \E sql \in SqlTexts, p \in ParamSamples : QueryOne(1, sql, p)
  \/ \E sql \in SqlTexts, p \in ParamSamples : Execute(1, sql, p)
  \/ \E sql \in SqlTexts, p \in ParamSamples : Run(1, sql, p)
  \/ \E statements \in StatementArgs : Transaction(1, statements)
  \/ Close(1)
  \/ Environment

Spec == Init /\ [][Next]_vars

\* several calls on the Database, outstanding together, with fixed arguments
NextConc ==
  \/ \E c \in Calls : Query(c, SqlSelect, Undefined)
  \/ \E c \in Calls : QueryOne(c, SqlSelect, Undefined)
  \/ \E c \in Calls : Execute(c, SqlInsert, Undefined)
  \/ \E c \in Calls : Run(c, SqlCreate, Undefined)
  \/ \E c \in Calls : Transaction(c, Arr(<<[sql |-> SqlInsert,
                                          parameters |-> Undefined,
                                          type |-> NoType]>>))
  \/ \E c \in Calls : Close(c)
  \/ Environment

SpecConc == Init /\ [][NextConc]_vars

\* several requests outstanding together on one promiser
NextSend ==
  \/ \E c \in Calls : Query(c, SqlSelect, Undefined)
  \/ \E c \in Calls : Execute(c, SqlInsert, Undefined)
  \/ Environment

SpecSend == Init /\ [][NextSend]_vars

\* webSqlite() in any browser with any filename, then run() and close() on
\* the Database it resolved with
NextOpen ==
  \/ \E hasWorker \in BOOLEAN, hasOPFS \in BOOLEAN, ctorThrows \in BOOLEAN,
        filename \in FilenameSamples :
          WebSqlite(hasWorker, hasOPFS, ctorThrows, filename)
  \/ OnError
  \/ \E c \in Calls : Run(c, SqlCreate, Undefined)
  \/ \E c \in Calls : Close(c)
  \/ Environment

SpecOpen == InitOpen /\ [][NextOpen]_vars

\* the worker posts again a message it has posted before
WorkerRepeats ==
  /\ \E id \in DOMAIN replied :
       /\ replied[id] \notin outbox
       /\ outbox' = outbox \cup {replied[id]}
  /\ UNCHANGED <<calls, messageId, pendingMessages, timers, posted, nproc, db,
                 replied, session, probe, second>>

\* a message that answers no request of this session
StrayData ==
  [type |-> "exec", messageId |-> MsgId(0),
   result |-> [t |-> "object", resultRows |-> Arr(<<>>)], error |-> Undefined]

\* the worker posts a message with a messageId the promiser never issued
WorkerStrays ==
  /\ StrayData \notin outbox
  /\ outbox' = outbox \cup {StrayData}
  /\ UNCHANGED <<calls, messageId, pendingMessages, timers, posted, nproc, db,
                 replied, session, probe, second>>

\* requests outstanding together, their answers delivered in any order, late,
\* twice, or for no request at all
NextDeliver ==
  \/ \E c \in Calls : Query(c, SqlSelect, Undefined)
  \/ WorkerRepeats
  \/ WorkerStrays
  \/ Environment

SpecDeliver == Init /\ [][NextDeliver]_vars

\* messages of the worker that are not the ready signal: the type or the
\* result of the ready signal alone, and no result at all
NearReady ==
  {[type |-> "sqlite3-api", messageId |-> Undefined,
    result |-> Str(<<"worker1-busy">>), error |-> Undefined],
   [type |-> "log", messageId |-> Undefined,
    result |-> Str(<<"worker1-ready">>), error |-> Undefined],
   [type |-> "sqlite3-api", messageId |-> Undefined,
    result |-> Undefined, error |-> Undefined]}

\* what a worker that never gives the ready signal may post
NoiseSamples ==
  NearReady \cup
  {StrayData,
   [type |-> "log", messageId |-> Undefined,
    result |-> Str(<<"worker1-busy">>), error |-> Undefined],
   [type |-> "log", messageId |-> Undefined,
    result |-> Undefined, error |-> Undefined]}

\* the worker posts the message d of its own accord
WorkerPosts(d) ==
  /\ session.worker
  /\ ~session.faulted
  /\ d \notin outbox
  /\ outbox' = outbox \cup {d}
  /\ UNCHANGED <<calls, messageId, pendingMessages, timers, posted, nproc, db,
                 replied, session, probe, second>>

\* webSqlite() with a worker that posts other messages before and after the
\* ready signal, gives the ready signal more than once, or raises an error
\* event; then run() on the Database
NextHandshake ==
  \/ \E filename \in LiveFilenames : WebSqlite(TRUE, TRUE, FALSE, filename)
  \/ \E d \in NearReady \cup {ReadyData} : WorkerPosts(d)
  \/ OnError
  \/ Run(1, SqlCreate, Undefined)
  \/ Environment

SpecHandshake == InitOpen /\ [][NextHandshake]_vars

\* webSqlite() with a worker that never gives the ready signal and raises
\* no error event, whatever else it posts
NextSilent ==
  \/ \E filename \in LiveFilenames : WebSqlite(TRUE, TRUE, FALSE, filename)
  \/ \E d \in NoiseSamples : WorkerPosts(d)
  \/ \E data \in outbox : OnMessage(data)

\* the event loop runs every task that is ready
SpecSilent == InitOpen /\ [][NextSilent]_vars /\ WF_vars(NextSilent)

\* statements whose declared type disagrees with the category of their SQL,
\* and statements without a type: a SELECT, a modification, another one
RouteSamples ==
  {[sql |-> SqlSelect, parameters |-> Undefined, type |-> "run"],
   [sql |-> SqlInsert, parameters |-> Undefined, type |-> "query"],
   [sql |-> SqlSelect, parameters |-> Undefined, type |-> NoType],
   [sql |-> SqlDelete, parameters |-> Undefined, type |-> NoType],
   [sql |-> SqlCreate, parameters |-> Undefined, type |-> NoType]}

RouteLists == UNION {[1..n -> RouteSamples] : n \in 1..MaxStmts}

\* one transaction() of statements with and without a declared type
NextRoute ==
  \/ \E stmts \in RouteLists : Transaction(1, Arr(stmts))
  \/ Environment

SpecRoute == Init /\ [][NextRoute]_vars

\* the tasks of the event loop: a message of the worker is handed to
\* onmessage, a timer that is due runs
EventLoop ==
  \/ \E data \in outbox : OnMessage(data)
  \/ \E i \in 1..Len(timers) : TimerFire(i)

\* a query() and an execute(), outstanding together or one after the other,
\* to a worker that answers, answers late, stops answering, or raises an
\* error event
NextSettle ==
  \/ Query(1, SqlSelect, Undefined)
  \/ Execute(2, SqlInsert, Undefined)
  \/ WorkerStep
  \/ OnError
  \/ EventLoop

\* the event loop runs every task that is ready; nothing is assumed of the
\* worker
SpecSettle == Init /\ [][NextSettle]_vars /\ WF_vars(EventLoop)

\* SELECT texts around the keyword boundary: the keyword in three casings,
\* bare or after a blank, followed by nothing, by whitespace alone, by a
\* character that is no whitespace, or by whitespace and more
SelectSpellings ==
  {<<"s","e","l","e","c","t">>, <<"S","E","L","E","C","T">>,
   <<"S","e","l","e","c","t">>}

SelectFollowers ==
  {<<>>, <<" ">>, <<"\n">>, <<"(","1",")">>, <<"*">>, <<"1">>, <<";">>,
   <<"s"," ","1">>, <<" ","1">>, <<"\t","1">>, <<"\n","1">>}

BoundaryTexts ==
  {lead \o kw \o rest : lead \in {<<>>, <<" ">>}, kw \in SelectSpellings,
                         rest \in SelectFollowers}

\* one query(), queryOne() or run() of such a text
NextBoundary ==
  \/ \E sql \in BoundaryTexts : Query(1, sql, Undefined)
  \/ \E sql \in BoundaryTexts : QueryOne(1, sql, Undefined)
  \/ \E sql \in BoundaryTexts : Run(1, sql, Undefined)
  \/ Environment

SpecBoundary == Init /\ [][NextBoundary]_vars

\* the second webSqlite() call has resolved like the first: its worker
\* answered its start signal and its open request msg-1
OpenedSecond ==
  [P |-> [messageId |-> 1, pending |-> << >>,
          posted |-> <<StartEnvelope, OpenEnvelope>>, timers |-> << >>],
   call |-> NoCall, outbox |-> {}, nproc |-> 2,
   db |-> [open |-> TRUE, committed |-> {}, working |-> {}, inTxn |-> FALSE]]

\* two Databases from two webSqlite() calls
InitTwo ==
  /\ calls = [c \in Calls |-> NoCall]
  /\ messageId = 1
  /\ pendingMessages = << >>
  /\ timers = << >>
  /\ posted = <<StartEnvelope, OpenEnvelope>>
  /\ nproc = 2
  /\ outbox = {}
  /\ db = [open |-> TRUE, committed |-> {}, working |-> {}, inTxn |-> FALSE]
  /\ replied = << >>
  /\ session = OpenedSession
  /\ probe = NoProbe
  /\ second = OpenedSecond

FirstUnchanged ==
  UNCHANGED <<calls, messageId, pendingMessages, timers, posted, nproc,
              outbox, db, replied, session, probe>>

\* query() on the second Database, to its await: the promiser of the second
\* session sends the envelope
SecondQuery(sql) ==
  LET req == executeWorkerRequest(second.P, 1, sql, Undefined, TRUE)
      call == [NoCall EXCEPT !.op = "query", !.sql = sql]
  IN  /\ second.call.op = "none"
      /\ second.nproc >= 2
      /\ QueryCheck(sql) = Undefined
      /\ req.thrown = Undefined
      /\ second' = [second EXCEPT !.call = Awaiting(call, req.P), !.P = req.P]
      /\ FirstUnchanged

\* the worker of the second session answers the next envelope it received
SecondWorkerStep ==
  /\ second.nproc < Len(second.P.posted)
  /\ \E o \in WorkerOutcomes(second.db, second.P.posted[second.nproc + 1],
                             second.nproc + 1) :
       second' = [second EXCEPT !.outbox = @ \cup {o.data}, !.db = o.db,
                                !.nproc = @ + 1]
  /\ FirstUnchanged

\* a handler of the second worker that looks the messageId up in the
\* pending map of the first session
SecondOnMessageShared(data) ==
  /\ data \in second.outbox
  /\ second' = [second EXCEPT !.outbox = @ \ {data}]
  /\ IF Truthy(data.messageId) /\ data.messageId \in DOMAIN pendingMessages
       THEN IF Truthy(data.error)
              THEN Settle(data.messageId, FALSE,
                          createWorkerError(data.error, "Worker execution"))
              ELSE Settle(data.messageId, TRUE, data.result)
       ELSE UNCHANGED <<calls, messageId, pendingMessages, posted, timers,
                        session>>
  /\ UNCHANGED <<nproc, outbox, db, replied, probe>>

\* worker.onmessage of the second session: the handler closes over the
\* pending map of its own initializeWorkerPromiser call
SecondOnMessage(data) ==
  /\ data \in second.outbox
  /\ IF Truthy(data.messageId) /\ data.messageId \in DOMAIN second.P.pending
       THEN LET P == [second.P EXCEPT
                       !.pending = MapDelete(@, data.messageId)]
                r == IF Truthy(data.error)
                       THEN Resume(second.call, P, 1, FALSE,
                                   createWorkerError(data.error,
                                                     "Worker execution"))
                       ELSE Resume(second.call, P, 1, TRUE, data.result)
            IN  second' = [second EXCEPT !.outbox = @ \ {data},
                                         !.call = r.call, !.P = r.P]
       ELSE second' = [second EXCEPT !.outbox = @ \ {data}]
  /\ FirstUnchanged

\* the setTimeout callback of the oldest request of the second session
SecondTimerFire ==
  /\ second.P.timers # << >>
  /\ LET id == second.P.timers[1].id
         P  == [second.P EXCEPT !.timers = Tail(@),
                                !.pending = MapDelete(@, id)]
         r  == Resume(second.call, P, 1, FALSE,
                      WebSQLiteError("Worker operation timeout"))
     IN  IF id \in DOMAIN second.P.pending
           THEN second' = [second EXCEPT !.call = r.call, !.P = r.P]
           ELSE second' = [second EXCEPT !.P = P]
  /\ FirstUnchanged

\* a query() on each of the two Databases, outstanding together
NextTwo ==
  \/ Query(1, SqlSelect, Undefined)
  \/ Environment
  \/ SecondQuery(SqlSelect)
  \/ SecondWorkerStep
  \/ \E data \in second.outbox : SecondOnMessage(data)
  \/ SecondTimerFire

SpecTwo == InitTwo /\ [][NextTwo]_vars

\* String.prototype.toUpperCase
ToUpperCase(s) ==
  [i \in 1..Len(s) |->
     IF \E k \in 1..Len(LowerChars) : LowerChars[k] = s[i]
       THEN UpperChars[CHOOSE k \in 1..Len(LowerChars) : LowerChars[k] = s[i]]
       ELSE s[i]]

\* the texts handed to the classifier: up to MaxLead whitespace characters,
\* then a first word (a keyword in lower case, in upper case or capitalised,
\* a keyword with a letter after it, another word, or nothing), then the
\* rest of the statement
Leads == UNION {[1..n -> Whitespace] : n \in 0..MaxLead}

Keywords == {KwSelect, KwInsert, KwUpdate, KwDelete, KwCreate, KwDrop, KwAlter}

FirstWords ==
  UNION {{kw, ToUpperCase(kw), ToUpperCase(SubSeq(kw, 1, 1)) \o Tail(kw),
          kw \o <<"s">>} : kw \in Keywords}
  \cup {<<"p","r","a","g","m","a">>, <<>>}

Rests == {<<>>, <<" ">>, <<" ", "1">>, <<"\t", "x">>, <<"\n", "*">>, <<"(", "1", ")">>,
          <<" ", "i", "n", "s", "e", "r", "t", " ", "1">>,
          <<";", "d", "r", "o", "p", " ", "t">>}

ProbeTexts == {lead \o word \o rest :
                 lead \in Leads, word \in FirstWords, rest \in Rests}

InitClassify ==
  /\ calls = [c \in Calls |-> NoCall]
  /\ messageId = 1
  /\ pendingMessages = << >>
  /\ timers = << >>
  /\ posted = <<StartEnvelope, OpenEnvelope>>
  /\ nproc = 2
  /\ outbox = {}
  /\ db = [open |-> TRUE, committed |-> {}, working |-> {}, inTxn |-> FALSE]
  /\ replied = << >>
  /\ session = OpenedSession
  /\ probe \in {[NoProbe EXCEPT !.sql = text] : text \in ProbeTexts}
  /\ second = NoSecond

\* analyzeSqlOperation is applied to the text
Classify ==
  /\ ~probe.done
  /\ probe' = [probe EXCEPT !.done = TRUE,
                            !.category = analyzeSqlOperation(probe.sql)]
  /\ UNCHANGED <<calls, messageId, pendingMessages, timers, posted, nproc,
                 outbox, db, replied, session, second>>

NextClassify == Classify

SpecClassify == InitClassify /\ [][NextClassify]_vars

\* the worker answers the next envelope, and with success
WorkerAnswers ==
  /\ nproc < Len(posted)
  /\ ~session.faulted
  /\ \E o \in WorkerOutcomes(db, posted[nproc + 1], nproc + 1) :
       ~Truthy(o.data.error) /\ WorkerReplies(o)

\* a timer runs when its request has been answered: the worker is prompt
TimerRunsLate ==
  \E i \in 1..Len(timers) :
    timers[i].id \notin DOMAIN pendingMessages /\ TimerFire(i)

\* the CREATE statements of the lifecycle
CreateTexts == {SqlCreate, <<"C","R","E","A","T","E","\t","T","A","B","L","E"," ","t">>,
                <<" ","c","r","e","a","t","e"," ","t","a","b","l","e"," ","u">>}

\* const db = await webSqlite(filename); await db.run(a CREATE statement);
\* await db.close(), with a worker that gives the ready signal and answers
\* every request with success before the request's timer runs
NextLive ==
  \/ \E filename \in LiveFilenames : WebSqlite(TRUE, TRUE, FALSE, filename)
  \/ WorkerAnswers
  \/ \E data \in outbox : OnMessage(data)
  \/ TimerRunsLate
  \/ \E sql \in CreateTexts : Run(1, sql, Undefined)
  \/ calls[1].outcome = "resolved" /\ Close(2)

\* the event loop runs every task that is ready, the worker every envelope
SpecLive == InitOpen /\ [][NextLive]_vars /\ WF_vars(NextLive)

(***************************************************************************)
(* Properties.                                                             *)
(***************************************************************************)
Range(f) == {f[x] : x \in DOMAIN f}

\* the envelopes call posted, in the order the worker receives them
PostedBy(call) ==
  LET Mine(e) == e.messageId \in Range(call.sent)
  IN  SelectSeq(posted, Mine)

\* the SQL texts of the envelopes call posted, in that order
SqlPostedBy(call) ==
  LET mine == PostedBy(call)
  IN  [i \in 1..Len(mine) |-> mine[i].args.sql]

\* the call's operation does not agree with the category of its SQL
Mismatch(call) ==
  LET opType == analyzeSqlOperation(call.sql)
  IN  \/ call.op \in {"query", "queryOne"} /\ opType # "select"
      \/ call.op = "execute" /\ opType \notin {"insert", "update", "delete"}
      \/ call.op = "run" /\ opType = "select"

\* C1: a query() or queryOne() whose SQL is not classified select, an
\* execute() whose SQL is not classified insert, update or delete, and a run()
\* whose SQL is classified select is rejected with the operation-type-mismatch
\* error, and posts no envelope: the worker has received nothing from it.
C1_MismatchRejectedUnsent ==
  \A c \in Calls :
    Mismatch(calls[c]) =>
      /\ calls[c].outcome = "rejected"
      /\ calls[c].value.name = "WebSQLiteError"
      /\ calls[c].value.message[1] = "SQL operation type mismatch"
      /\ calls[c].sent = <<>>
      /\ PostedBy(calls[c]) = <<>>
      /\ (\A d \in Calls \ {c} : calls[d].op = "none")
           => posted = <<StartEnvelope, OpenEnvelope>> /\ pendingMessages = << >>

\* query() was called with an INSERT statement and rejected, nothing posted
C1_Witness ==
  /\ calls[1].op = "query"
  /\ calls[1].sql = SqlInsert
  /\ calls[1].outcome = "rejected"
  /\ posted = <<StartEnvelope, OpenEnvelope>>

\* the SQL texts of the first m statements of a transaction() call
StmtSqls(call, m) == [i \in 1..m |-> call.stmts[i].sql]

\* the statements of a transaction() call that change the database
WriteStmts(call) ==
  {i \in 1..Len(call.stmts) : EngineKind(call.stmts[i].sql) = "write"}

\* C2: when transaction() has rejected, no change made by an envelope of the
\* call is committed in the engine, and when it has resolved, the change of
\* every one of its statements is committed.
C2_Atomic ==
  \A c \in Calls :
    calls[c].op = "transaction" /\ calls[c].pc = "done" =>
      /\ calls[c].outcome = "rejected"
           => Range(calls[c].sent) \cap db.committed = {}
      /\ calls[c].outcome = "resolved"
           => \A i \in WriteStmts(calls[c]) :
                calls[c].sent[i + 1] \in db.committed

\* a transaction() call entered its catch block because of statement k
StatementFailed(call) ==
  /\ call.op = "transaction"
  /\ call.failure.at \in {"validation", "statement", "result"}

\* C3 as claimed: when statement k is the first to fail, the envelopes of the
\* call are BEGIN, the statements 1..k, ROLLBACK, in that order and no other
\* (no later statement, no COMMIT), and the call ends rejected.
C3_FailurePathAsClaimed ==
  \A c \in Calls :
    StatementFailed(calls[c]) =>
      /\ SqlPostedBy(calls[c]) =
           <<SqlBegin>> \o StmtSqls(calls[c], calls[c].failure.k)
             \o <<SqlRollback>>
      /\ calls[c].pc = "done" => calls[c].outcome = "rejected"

\* C3, amended: when statement k is the first to fail, the envelopes of the
\* call are BEGIN, the statements 1..k-1, statement k unless it failed the
\* local validation (it is then never sent), ROLLBACK, in that order and no
\* other; the call stays suspended until ROLLBACK settles and ends rejected
\* with the error of statement k in transaction-execution context.
C3_FailurePath ==
  \A c \in Calls :
    StatementFailed(calls[c]) =>
      LET k == calls[c].failure.k
          m == IF calls[c].failure.at = "validation" THEN k - 1 ELSE k
      IN  /\ SqlPostedBy(calls[c]) =
               <<SqlBegin>> \o StmtSqls(calls[c], m) \o <<SqlRollback>>
          /\ Len(calls[c].sent) = m + 2
          /\ calls[c].pc \in {"await", "done"}
          /\ calls[c].pc = "await" => calls[c].step = "rollback"
          /\ calls[c].pc = "done" =>
               /\ calls[c].outcome = "rejected"
               /\ calls[c].value =
                    createWorkerError(calls[c].error, "Transaction execution")

\* the first of two statements was sent and failed; the call has rejected
C3_Witness ==
  /\ calls[1].op = "transaction"
  /\ Len(calls[1].stmts) = 2
  /\ calls[1].failure = [at |-> "statement", k |-> 1]
  /\ calls[1].settled[2] = FALSE
  /\ calls[1].outcome = "rejected"

\* BEGIN, every statement and COMMIT of a transaction() call were sent and
\* their promises resolved
AllSucceeded(call) ==
  LET n == Len(call.stmts)
  IN  /\ Len(call.sent) = n + 2
      /\ Len(call.settled) = n + 2
      /\ \A i \in 1..(n + 2) : call.settled[i]
      /\ SqlPostedBy(call)[n + 2] = SqlCommit

\* entry is the result of a statement of the given branch whose own envelope
\* env the worker answered with the result r
ResultOfBranch(entry, opType, env, stmt, r) ==
  /\ env.args.sql = stmt.sql
  /\ opType = "query" =>
       /\ IsArray(entry)
       /\ IsArray(r.resultRows) => entry = r.resultRows
  /\ opType = "execute" =>
       /\ entry.t = "object"
       /\ Truthy(r.changes) => entry.changes = r.changes
       /\ Truthy(r.lastInsertRowid) => entry.lastInsertRowid = r.lastInsertRowid
  /\ opType = "run" => entry = Undefined

\* C4: when BEGIN, every statement and COMMIT succeed, transaction() resolves;
\* it resolves to a list as long as statements whose i-th entry is the result
\* of statement i in the shape of its branch, and the call posted exactly
\* len(statements) + 2 envelopes: BEGIN, the statements in order, COMMIT.
C4_SuccessShape ==
  \A c \in Calls :
    calls[c].op = "transaction" =>
      LET call == calls[c]
          n    == Len(call.stmts)
          mine == PostedBy(call)
      IN  /\ AllSucceeded(call) => call.outcome = "resolved"
          /\ call.outcome = "resolved" =>
               /\ IsArray(call.value)
               /\ Len(call.value.v) = n
               /\ Len(mine) = n + 2
               /\ SqlPostedBy(call) =
                    <<SqlBegin>> \o StmtSqls(call, n) \o <<SqlCommit>>
               /\ \A i \in 1..n :
                    ResultOfBranch(call.value.v[i], StmtOpType(call.stmts[i]),
                                   mine[i + 1], call.stmts[i],
                                   replied[mine[i + 1].messageId].result)

\* a transaction of an INSERT and a SELECT resolved with a modification result
\* and a row
C4_Witness ==
  /\ calls[1].op = "transaction"
  /\ calls[1].outcome = "resolved"
  /\ Len(calls[1].stmts) = 2
  /\ StmtOpType(calls[1].stmts[1]) = "execute"
  /\ StmtOpType(calls[1].stmts[2]) = "query"
  /\ calls[1].value.v[1].changes = Num(1)
  /\ Len(calls[1].value.v[2].v) = 1

\* the modification result m, built from the worker's result r, has its
\* defaults: the change count is a number, 0 when r carries none (under
\* neither name the code reads), and the row id is never undefined, null when
\* r carries none
DefaultsHold(m, r) ==
  /\ m.changes.t = "number"
  /\ (r.changes = Undefined /\ r.changeCount = Undefined)
       => m.changes = Num(0)
  /\ m.lastInsertRowid # Undefined
  /\ (r.lastInsertRowid = Undefined /\ r.lastInsertRowId = Undefined)
       => m.lastInsertRowid = Null

\* C10: the result of execute(), and of every statement of the execute branch
\* of a transaction, has changes a number, 0 when the engine's answer omits
\* it, and lastInsertRowid null, never undefined, when the answer reports none.
C10_ModificationDefaults ==
  \A c \in Calls :
    /\ calls[c].op = "execute" /\ calls[c].outcome = "resolved"
         => DefaultsHold(calls[c].value, replied[calls[c].sent[1]].result)
    /\ calls[c].op = "transaction" =>
         \A i \in 1..Len(calls[c].results) :
           StmtOpType(calls[c].stmts[i]) = "execute"
             => DefaultsHold(calls[c].results[i],
                             replied[calls[c].sent[i + 1]].result)

\* execute() resolved on an answer that carried neither count nor row id
C10_Witness ==
  /\ calls[1].op = "execute"
  /\ calls[1].outcome = "resolved"
  /\ replied[calls[1].sent[1]].result.changes = Undefined
  /\ replied[calls[1].sent[1]].result.changeCount = Undefined
  /\ replied[calls[1].sent[1]].result.lastInsertRowid = Undefined
  /\ replied[calls[1].sent[1]].result.lastInsertRowId = Undefined
  /\ calls[1].value.changes = Num(0)
  /\ calls[1].value.lastInsertRowid = Null

\* what a typed operation returns for the worker's result r
Returned(op, r) ==
  IF op = "query" THEN RowsOf(r)
  ELSE IF op = "queryOne" THEN FirstRowOf(r)
  ELSE IF op = "execute" THEN ModificationResult(r)
  ELSE Undefined

\* the rejection of a typed operation whose request timed out
TimeoutRejection ==
  createWorkerError(WebSQLiteError("Worker operation timeout"), "SQL execution")

\* C5: with several requests outstanding on one worker and their answers
\* delivered in any order, a call that resolved did so with the result carried
\* by the answer bearing its own messageId, and a call rejected by the worker
\* was rejected by the error of the answer bearing its own messageId.
C5_OwnResult ==
  \A c \in Calls :
    calls[c].op \in {"query", "execute"} /\ calls[c].pc = "done" =>
      LET id == calls[c].sent[1]
      IN  /\ calls[c].outcome = "resolved" =>
                /\ id \in DOMAIN replied
                /\ ~Truthy(replied[id].error)
                /\ replied[id].result # Undefined
                /\ calls[c].value = Returned(calls[c].op, replied[id].result)
          /\ (calls[c].outcome = "rejected"
                /\ calls[c].value # TimeoutRejection
                /\ calls[c].value # TypeError) =>
                /\ id \in DOMAIN replied
                /\ calls[c].value.cause.cause = replied[id].error

\* the second request resolved with its row while the first, sent before it
\* and answered by the worker, still waits: the answers arrive in reverse
C5_Witness ==
  /\ calls[1].pc = "await"
  /\ calls[1].msgId \in DOMAIN replied
  /\ calls[1].msgId \in calls[2].pendingAtCall
  /\ calls[2].op = "query"
  /\ calls[2].outcome = "resolved"
  /\ Len(calls[2].value.v) = 1

\* the timer of the request id runs in this step
TimerRuns(id) ==
  /\ \E i \in 1..Len(timers) : timers[i].id = id
  /\ ~ \E i \in 1..Len(timers') : timers'[i].id = id

\* an answer to the request id is delivered in this step
Delivered(id) == \E d \in outbox : d.messageId = id /\ d \notin outbox'

\* one step, seen from every request that is outstanding before it
C6_Step ==
  \A c \in Calls :
    calls[c].pc = "await" =>
      LET id == calls[c].msgId
      IN  /\ TimerRuns(id) =>
                /\ calls'[c].outcome = "rejected"
                /\ calls'[c].value = TimeoutRejection
          /\ Delivered(id) =>
                /\ calls'[c].pc = "done"
                /\ calls'[c].value # TimeoutRejection
                /\ (~Truthy(replied[id].error) /\ replied[id].result # Undefined)
                     => /\ calls'[c].outcome = "resolved"
                        /\ calls'[c].value =
                             Returned(calls[c].op, replied[id].result)
          /\ (~TimerRuns(id) /\ ~Delivered(id)) => calls'[c] = calls[c]

\* C6: an outstanding request is rejected with the operation-timeout error
\* when its own timer runs, is settled by the answer to it when that arrives
\* first (resolved with that answer's result), and is left as it is by every
\* other step: the timer and the answer of another request do not settle it.
C6_TimeoutIndependence == [][C6_Step]_vars

\* two requests were outstanding together; the first resolved with the answer
\* to it, the second was never answered and timed out
C6_Witness ==
  /\ calls[1].outcome = "resolved"
  /\ calls[1].sent[1] \in calls[2].pendingAtCall
  /\ calls[2].outcome = "rejected"
  /\ calls[2].value = TimeoutRejection
  /\ calls[2].sent[1] \notin DOMAIN replied

\* C7: a close() made after a close() has resolved is a no-op: it posts no
\* envelope, and it resolves.
C7_SecondCloseNoOp ==
  \A c \in Calls :
    calls[c].op = "close" /\ calls[c].afterClose =>
      /\ calls[c].sent = <<>>
      /\ calls[c].outcome = "resolved"

\* C8: a query, queryOne, execute, run or transaction call made after a
\* close() has resolved is rejected and posts no envelope.
C8_FailFastAfterClose ==
  \A c \in Calls :
    (calls[c].op \in {"query", "queryOne", "execute", "run", "transaction"}
       /\ calls[c].afterClose) =>
      /\ calls[c].sent = <<>>
      /\ calls[c].outcome = "rejected"

\* C9: once close() has been called, no request that was pending at the call
\* is still pending: each was rejected at close time.
C9_CloseRejectsPending ==
  \A c \in Calls :
    calls[c].op = "close" =>
      /\ calls[c].pendingAtCall \cap DOMAIN pendingMessages = {}
      /\ \A d \in Calls :
           (calls[d].sent # <<>> /\
            calls[d].sent[Len(calls[d].sent)] \in calls[c].pendingAtCall)
             => calls[d].outcome = "rejected"

\* the call's SQL and parameters pass the validation of executeWorkerRequest
PassesValidation(call) ==
  /\ validateSqlInput(call.sql, call.parameters) = Undefined
  /\ Truthy(call.parameters) => validateParameterTypes(call.parameters)

\* C11: a run() whose SQL is classified insert, update, delete, ddl or
\* utility (and passes input validation) is not refused for its category: it
\* posts exactly one exec envelope, carrying its SQL and no resultRows field,
\* and when that request is answered with success it resolves with
\* undefined, whatever result the worker sent.
C11_RunDispatch ==
  \A c \in Calls :
    (/\ calls[c].op = "run"
     /\ analyzeSqlOperation(calls[c].sql) # "select"
     /\ PassesValidation(calls[c])) =>
      /\ Len(calls[c].sent) = 1
      /\ Len(PostedBy(calls[c])) = 1
      /\ PostedBy(calls[c])[1].type = "exec"
      /\ PostedBy(calls[c])[1].args.sql = calls[c].sql
      /\ PostedBy(calls[c])[1].args.resultRows = Undefined
      /\ calls[c].settled = <<TRUE>> =>
           calls[c].outcome = "resolved" /\ calls[c].value = Undefined
      /\ calls[c].outcome = "resolved" => calls[c].settled = <<TRUE>>

\* run() of a CREATE statement has resolved with undefined although the
\* worker answered with a result object
C11_Witness ==
  /\ calls[1].op = "run"
  /\ analyzeSqlOperation(calls[1].sql) = "ddl"
  /\ calls[1].outcome = "resolved"
  /\ calls[1].value = Undefined
  /\ replied[calls[1].sent[1]].result # Undefined

\* the types a bound value may have
BindableTypes == {"string", "number", "bigint", "boolean", "null",
                  "Uint8Array", "DataView", "Date"}

\* bound parameters that are given and are not an array or object, or hold a
\* value of a type that cannot be bound
BadParameters(p) ==
  /\ p # Undefined
  /\ \/ p.t \notin {"array", "object"}
     \/ \E i \in 1..Len(p.v) : p.v[i].t \notin BindableTypes

\* C12: a query(), queryOne(), execute() or run() whose parameters are not an
\* array or object, or hold a value that cannot be bound, is rejected and has
\* posted nothing; no exec envelope the worker receives carries such
\* parameters, and a transaction() with such a statement does not resolve.
C12_ParametersValidated ==
  /\ \A c \in Calls :
       (/\ calls[c].op \in {"query", "queryOne", "execute", "run"}
        /\ BadParameters(calls[c].parameters)) =>
         /\ calls[c].outcome = "rejected"
         /\ calls[c].sent = <<>>
         /\ PostedBy(calls[c]) = <<>>
  /\ \A i \in 1..Len(posted) :
       posted[i].type = "exec" => ~BadParameters(posted[i].args.bind)
  /\ \A c \in Calls :
       (/\ calls[c].op = "transaction"
        /\ \E i \in 1..Len(calls[c].stmts) :
             BadParameters(calls[c].stmts[i].parameters)) =>
         calls[c].outcome # "resolved"

\* execute() of an INSERT with a parameter of no supported type was rejected
\* by the parameter validation, nothing posted
C12_Witness ==
  /\ calls[1].op = "execute"
  /\ calls[1].sql = SqlInsert
  /\ calls[1].parameters = Arr(<<JsSymbol>>)
  /\ calls[1].outcome = "rejected"
  /\ calls[1].value.message[1] = "Parameter validation"
  /\ posted = <<StartEnvelope, OpenEnvelope>>

\* the values as the claim has them transmitted: a Date as its ISO-8601
\* text, every other value unchanged
Transmitted(v) ==
  [j \in 1..Len(v) |-> IF v[j].t = "Date" THEN Str(v[j].iso) ELSE v[j]]

\* C13: the exec envelope of a call with bound parameters carries, in bind,
\* the parameters with every Date replaced by its ISO-8601 text and every
\* other value unchanged; no envelope carries a Date object.
C13_DateAsIsoText ==
  /\ \A c \in Calls :
       (/\ calls[c].op \in {"query", "queryOne", "execute", "run"}
        /\ calls[c].sent # <<>>
        /\ Truthy(calls[c].parameters)) =>
         PostedBy(calls[c])[1].args.bind.v = Transmitted(calls[c].parameters.v)
  /\ \A i \in 1..Len(posted) :
       (posted[i].type = "exec" /\ posted[i].args.bind # Undefined) =>
         \A j \in 1..Len(posted[i].args.bind.v) :
           posted[i].args.bind.v[j].t # "Date"

\* C14: a run() whose SQL is empty or holds nothing but whitespace (the
\* classifier gives it the utility category, so run() does not refuse it) is
\* rejected by the input validation and has posted nothing.
C14_BlankSqlRejected ==
  \A c \in Calls :
    (calls[c].op = "run" /\ Trim(calls[c].sql) = <<>>) =>
      /\ analyzeSqlOperation(calls[c].sql) = "utility"
      /\ calls[c].outcome = "rejected"
      /\ calls[c].sent = <<>>
      /\ PostedBy(calls[c]) = <<>>

\* the error target is e or is reached from e through cause
RECURSIVE CauseChainReaches(_, _)
CauseChainReaches(e, target) ==
  \/ e = target
  \/ /\ e.t = "error"
     /\ e.cause # Undefined
     /\ CauseChainReaches(e.cause, target)

\* the message ends with the parts tail
EndsWith(message, tail) ==
  /\ Len(message) >= Len(tail)
  /\ SubSeq(message, Len(message) - Len(tail) + 1, Len(message)) = tail

\* e is a WebSQLiteError that carries the engine's message and has the
\* engine's error object in its cause chain
SurfacesFailure(e, error) ==
  /\ e.t = "error"
  /\ e.name = "WebSQLiteError"
  /\ EndsWith(e.message, error.message)
  /\ CauseChainReaches(e, error)

\* the delivery of the failure message data to the request of call c
SurfacedTo(c, data) ==
  IF calls[c].op = "transaction" /\ calls[c].step \in {"stmt", "commit"}
    THEN \* the coordinator caught the rejection and goes on to ROLLBACK
         /\ calls'[c].outcome = "none"
         /\ calls'[c].results = calls[c].results
         /\ SurfacesFailure(calls'[c].error, data.error)
  ELSE IF calls[c].op = "transaction" /\ calls[c].step = "rollback"
    THEN \* the rejection of ROLLBACK is caught; the first error is thrown
         /\ calls'[c].outcome = "rejected"
         /\ calls'[c].value = createWorkerError(calls[c].error,
                                                "Transaction execution")
  ELSE /\ calls'[c].outcome = "rejected"
       /\ SurfacesFailure(calls'[c].value, data.error)

\* C15: when a message of the worker that reports a failure is delivered for
\* a request still awaited, the request is rejected, never resolved with the
\* failure as its result: the operation that awaits it rejects with (or, in
\* a transaction, catches) a WebSQLiteError whose message ends with the
\* engine's message and whose cause chain reaches the engine's error.
C15_Step ==
  \A data \in outbox :
    (/\ data \notin outbox'
     /\ Truthy(data.error)
     /\ data.messageId \in DOMAIN pendingMessages) =>
      /\ data.messageId \notin DOMAIN pendingMessages'
      /\ pendingMessages[data.messageId] # 0 =>
           SurfacedTo(pendingMessages[data.messageId], data)
      /\ pendingMessages[data.messageId] = 0 =>
           /\ session'.outcome = "rejected"
           /\ SurfacesFailure(session'.value, data.error)

C15_FailureSurfaces == [][C15_Step]_vars

\* execute() was rejected on the worker's failure message: the message ends
\* with the engine's message and the cause of the cause is the engine's error
C15_Witness ==
  /\ calls[1].op = "execute"
  /\ calls[1].outcome = "rejected"
  /\ calls[1].settled = <<FALSE>>
  /\ calls[1].sent[1] \in DOMAIN replied
  /\ Truthy(replied[calls[1].sent[1]].error)
  /\ calls[1].value.message =
       <<"SQL execution", "Worker execution", "SQLITE_ERROR">>
  /\ calls[1].value.cause.cause = replied[calls[1].sent[1]].error

\* the value is of the result shape the operation documents
DocumentedShape(op, v) ==
  IF op = "query" THEN IsArray(v)
  ELSE IF op = "queryOne" THEN v = Null \/ v.t = "object"
  ELSE IF op = "execute"
    THEN /\ v.t = "object"
         /\ v.changes.t = "number"
         /\ v.lastInsertRowid.t \in {"number", "null"}
  ELSE IF op = "transaction" THEN IsArray(v)
  ELSE v = Undefined

\* C16: every call that has settled has either resolved with the result
\* shape its operation documents or rejected with a WebSQLiteError, whatever
\* the worker answered (an answer without a result included); so has
\* webSqlite().
C16_UniformOutcome ==
  /\ \A c \in Calls :
       /\ calls[c].outcome = "resolved" =>
            DocumentedShape(calls[c].op, calls[c].value)
       /\ calls[c].outcome = "rejected" =>
            calls[c].value.t = "error" /\ calls[c].value.name = "WebSQLiteError"
  /\ session.outcome = "resolved" => session.value = Database
  /\ session.outcome = "rejected" =>
       session.value.t = "error" /\ session.value.name = "WebSQLiteError"

\* C17: a webSqlite() call made where the Worker primitive or the OPFS store
\* is missing, or with a filename that is empty or not a string, has
\* rejected, and no worker was created and no message was posted: nothing
\* is pending and no timer is set.
C17_CapabilityFirst ==
  (/\ session.phase # "none"
   /\ \/ ~session.hasWorker
      \/ ~session.hasOPFS
      \/ session.filename.t # "string"
      \/ session.filename = Str(<<>>)) =>
    /\ session.outcome = "rejected"
    /\ session.value.name = "WebSQLiteError"
    /\ ~session.worker
    /\ posted = << >>
    /\ messageId = 0
    /\ pendingMessages = << >>
    /\ timers = << >>
    /\ outbox = {}

\* webSqlite("app.db") was called where the OPFS store is missing and has
\* rejected; no worker, no message
C17_Witness ==
  /\ session.hasWorker
  /\ ~session.hasOPFS
  /\ session.filename = Str(AppFile)
  /\ session.outcome = "rejected"
  /\ ~session.worker
  /\ posted = << >>

\* webSqlite(), run() and close() have all resolved
LifecycleDone ==
  /\ session.outcome = "resolved"
  /\ calls[1].op = "run" /\ calls[1].outcome = "resolved"
  /\ calls[2].op = "close" /\ calls[2].outcome = "resolved"

\* nothing has rejected, and each step was made after the one before it had
\* resolved
LifecycleInOrder ==
  /\ session.outcome # "rejected"
  /\ \A c \in Calls : calls[c].outcome # "rejected"
  /\ calls[1].op # "none" => session.outcome = "resolved"
  /\ calls[2].op # "none" => calls[1].outcome = "resolved"

\* C18: with a worker that gives the ready signal and answers every request
\* with success, webSqlite(filename), then run() of a CREATE statement, then
\* close() each resolve, in that order, and nothing ever rejects.
C18_LifecycleLiveness == [](LifecycleInOrder) /\ <>(LifecycleDone)

\* the three steps have resolved: the Database was opened, the CREATE
\* statement and the close envelope were answered
C18_Witness ==
  /\ LifecycleDone
  /\ calls[1].sql \in CreateTexts
  /\ Len(posted) = 4
  /\ nproc = 4
  /\ ~db.open

\* the first word of a text: its characters up to the first whitespace
RECURSIVE FirstWord(_)
FirstWord(text) ==
  IF text = <<>> \/ Head(text) \in Whitespace THEN <<>>
  ELSE <<Head(text)>> \o FirstWord(Tail(text))

\* the category by the leading keyword: the first word of the text without
\* the whitespace around it, in lower case, when something follows it
CategoryByKeyword(sql) ==
  LET text == Trim(sql)
      word == FirstWord(ToLowerCase(text))
  IN  IF Len(word) = Len(text) THEN "utility"
      ELSE IF word = KwSelect THEN "select"
      ELSE IF word = KwInsert THEN "insert"
      ELSE IF word = KwUpdate THEN "update"
      ELSE IF word = KwDelete THEN "delete"
      ELSE IF word \in {KwCreate, KwDrop, KwAlter} THEN "ddl"
      ELSE "utility"

\* C19: analyzeSqlOperation gives every text exactly one of the six
\* categories: the one of its leading keyword after trimming and
\* lower-casing (select, insert, update, delete, then create, drop or alter
\* as ddl), utility when there is none; whitespace put in front of the text
\* and the case of its letters do not change the category.
C19_ClassifierTotal ==
  probe.done =>
    /\ probe.category \in {"select", "insert", "update", "delete", "ddl",
                            "utility"}
    /\ probe.category = CategoryByKeyword(probe.sql)
    /\ \A ch \in Whitespace :
         analyzeSqlOperation(<<ch>> \o probe.sql) = probe.category
    /\ analyzeSqlOperation(ToUpperCase(probe.sql)) = probe.category
    /\ analyzeSqlOperation(ToLowerCase(probe.sql)) = probe.category

\* "\t UPDATE 1" was classified update
C19_Witness ==
  /\ probe.done
  /\ probe.sql = <<"\t", " ">> \o ToUpperCase(KwUpdate) \o <<" ", "1">>
  /\ probe.category = "update"

\* C20: a transaction() called with an empty list, or with a value that is
\* no array, has rejected with the transaction-validation error and has
\* posted nothing: no BEGIN, no COMMIT, no ROLLBACK.
C20_EmptyTransactionRejected ==
  \A c \in Calls :
    (/\ calls[c].op = "transaction"
     /\ \/ ~IsArray(calls[c].parameters)
        \/ calls[c].parameters = Arr(<<>>)) =>
      /\ calls[c].outcome = "rejected"
      /\ calls[c].value.name = "WebSQLiteError"
      /\ calls[c].value.message[1] = "Transaction validation"
      /\ calls[c].sent = <<>>
      /\ PostedBy(calls[c]) = <<>>
      /\ \A i \in 1..Len(posted) :
           posted[i].type = "exec" =>
             posted[i].args.sql \notin {SqlBegin, SqlCommit, SqlRollback}

\* transaction([]) was called and has rejected, nothing posted
C20_Witness ==
  /\ calls[1].op = "transaction"
  /\ calls[1].parameters = Arr(<<>>)
  /\ calls[1].outcome = "rejected"
  /\ posted = <<StartEnvelope, OpenEnvelope>>

\* the transaction() call entered its catch block and its ROLLBACK request
\* was rejected
RollbackFailed(call) ==
  /\ call.op = "transaction"
  /\ call.failure.at # ""
  /\ call.outcome = "rejected"
  /\ call.settled[Len(call.settled)] = FALSE

\* the rejections a request with messageId id can have met: its timeout, or
\* the failure the worker reported for it
RejectionsOf(id) ==
  {WebSQLiteError("Worker operation timeout")}
  \cup (IF id \in DOMAIN replied /\ Truthy(replied[id].error)
          THEN {createWorkerError(replied[id].error, "Worker execution")}
          ELSE {})

\* C21: when a transaction() has entered its catch block and the ROLLBACK
\* request was rejected too (by a failure message or by its timeout), the
\* call has rejected with the error that was caught, wrapped in
\* "Transaction execution": for a statement whose request was rejected, the
\* rejection of that statement's request; the error the worker reported for
\* ROLLBACK is nowhere in the cause chain.
C21_RollbackNeverMasks ==
  \A c \in Calls :
    RollbackFailed(calls[c]) =>
      LET call     == calls[c]
          rollback == call.sent[Len(call.sent)]
      IN  /\ call.value.name = "WebSQLiteError"
          /\ call.value.message[1] = "Transaction execution"
          /\ call.value.cause = call.error
          /\ call.value.message = <<"Transaction execution">> \o call.error.message
          /\ call.failure.at = "statement" =>
               /\ call.error.message[1] = "SQL execution"
               /\ call.error.cause \in RejectionsOf(call.sent[Len(call.sent) - 1])
          /\ (rollback \in DOMAIN replied /\ Truthy(replied[rollback].error)) =>
               ~CauseChainReaches(call.value, replied[rollback].error)

\* the second statement's request and the ROLLBACK request were both
\* answered with a failure; the call rejected with the statement's
C21_Witness ==
  /\ RollbackFailed(calls[1])
  /\ calls[1].failure = [at |-> "statement", k |-> 2]
  /\ Len(calls[1].sent) = 4
  /\ calls[1].settled = <<TRUE, TRUE, FALSE, FALSE>>
  /\ Truthy(replied[calls[1].sent[4]].error)
  /\ CauseChainReaches(calls[1].value, replied[calls[1].sent[3]].error)

\* every request of every call has been settled at most once: a call has
\* been woken once for each request it posted, less the one it still awaits
SettledAtMostOnce ==
  \A c \in Calls :
    Len(calls[c].settled) =
      Len(calls[c].sent) - (IF calls[c].pc = "await" THEN 1 ELSE 0)

\* the delivery of a message whose messageId has no entry in the pending map
\* changes nothing but the queue of inbound messages
C22_Step ==
  \A data \in outbox :
    (/\ data \notin outbox'
     /\ session.isInitialized
     /\ ~(Truthy(data.messageId) /\ data.messageId \in DOMAIN pendingMessages)) =>
      UNCHANGED <<calls, messageId, pendingMessages, timers, posted, session>>

\* C22: with answers delivered in any order, delivered twice, delivered
\* after the timer, and timers running at any time, every request is
\* settled at most once, and the delivery of a message whose messageId is
\* not in the pending map (late, duplicate or unknown) settles nothing and
\* leaves the pending map and every call as they were.
C22_AtMostOnce == [](SettledAtMostOnce) /\ [][C22_Step]_vars

\* the first request was rejected by its timer, the answer the worker gave
\* to it was delivered afterwards, and the second request is still pending
C22_Witness ==
  /\ calls[1].outcome = "rejected"
  /\ calls[1].settled = <<FALSE>>
  /\ calls[1].sent[1] \in DOMAIN replied
  /\ replied[calls[1].sent[1]] \notin outbox
  /\ calls[2].pc = "await"
  /\ calls[2].sent[1] \in DOMAIN pendingMessages

\* C23: once a request has been settled by an inbound message, no timer of
\* that request remains scheduled: every scheduled timer belongs to a
\* request still in the pending map or to one its own timer would reject.
C23_SettlementCancelsTimer ==
  \A i \in DOMAIN timers :
    (/\ timers[i].id \in DOMAIN replied
     /\ replied[timers[i].id] \notin outbox) =>
      timers[i].id \in DOMAIN pendingMessages

\* the messageIds of the envelopes posted so far, in posting order
IssuedIds ==
  LET correlated == SelectSeq(posted, LAMBDA env : env.messageId # Undefined)
  IN  [i \in DOMAIN correlated |-> correlated[i].messageId]

\* C24: the messageIds issued in the session are pairwise different, the
\* ids in the pending map are among them, and the next call gets the id
\* after the highest one issued.
C24_FreshIds ==
  /\ \A i, j \in DOMAIN IssuedIds : i # j => IssuedIds[i] # IssuedIds[j]
  /\ DOMAIN pendingMessages \subseteq Range(IssuedIds)
  /\ \A i \in DOMAIN IssuedIds : IssuedIds[i] = MsgId(i)
  /\ messageId = Len(IssuedIds)

\* a request was sent after another had been rejected by its timer and
\* while the answer to that one was still to be delivered
C24_Witness ==
  /\ Len(IssuedIds) = 3
  /\ calls[1].outcome = "rejected"
  /\ calls[1].settled = <<FALSE>>
  /\ calls[1].sent[1] \in DOMAIN replied
  /\ replied[calls[1].sent[1]] \in outbox
  /\ calls[2].pc = "await"
  /\ DOMAIN pendingMessages = {IssuedIds[3]}

\* the requests of call c that have not been settled
OutstandingOf(c) ==
  {id \in DOMAIN pendingMessages : pendingMessages[id] = c}

\* C25: a transaction() call has at most one request outstanding, the one
\* it posted last, and every request it posted before that one has been
\* settled: the envelope of a step is posted only when the step before it
\* has settled.
C25_SequentialDispatch ==
  \A c \in Calls :
    calls[c].op = "transaction" =>
      LET sent == calls[c].sent
      IN  /\ Cardinality(OutstandingOf(c)) <= 1
          /\ OutstandingOf(c) \subseteq {sent[i] : i \in {Len(sent)}  \cap DOMAIN sent}
          /\ Len(calls[c].settled) =
               Len(sent) - (IF calls[c].pc = "await" THEN 1 ELSE 0)
          /\ Cardinality({i \in DOMAIN posted :
                            posted[i].messageId \in Range(sent)}) = Len(sent)
          /\ Len(posted) = 2 + Len(sent)

\* the second statement of a transaction is outstanding, BEGIN and the first
\* statement have been settled
C25_Witness ==
  /\ calls[1].op = "transaction"
  /\ calls[1].step = "stmt"
  /\ calls[1].idx = 2
  /\ calls[1].settled = <<TRUE, TRUE>>
  /\ Len(calls[1].sent) = 3
  /\ OutstandingOf(1) = {calls[1].sent[3]}

\* the place in posted of the envelope with messageId id
PlaceOf(id) == CHOOSE i \in DOMAIN posted : posted[i].messageId = id

\* the places in posted from the BEGIN of a transaction call to its COMMIT
\* or ROLLBACK, or to the envelope posted last while it has sent neither
TxnSpan(call) ==
  LET first == PlaceOf(call.sent[1])
      last  == IF call.step \in {"commit", "rollback"}
                 THEN PlaceOf(call.sent[Len(call.sent)])
                 ELSE Len(posted)
  IN  first..last

\* C26: between the BEGIN of a transaction() call and its COMMIT or
\* ROLLBACK the worker receives only envelopes of that call, whatever other
\* operations are issued on the same Database meanwhile.
C26_TransactionIsolated ==
  \A c \in Calls :
    (/\ calls[c].op = "transaction"
     /\ calls[c].sent # <<>>
     /\ ~(calls[c].step = "begin" /\ calls[c].pc # "await")) =>
      \A i \in TxnSpan(calls[c]) : posted[i].messageId \in Range(calls[c].sent)

\* the open requests posted so far
OpenRequests == {i \in DOMAIN posted : posted[i].type = "open"}

\* the handshake is resolved by the delivery of the ready signal alone, stays
\* resolved, and the delivery of any other message before it changes nothing
C27_Step ==
  /\ (~session.isInitialized /\ session'.isInitialized) =>
       (ReadyData \in outbox /\ ReadyData \notin outbox')
  /\ session.isInitialized => session'.isInitialized
  /\ OpenRequests' # OpenRequests => ~session.isInitialized
  /\ \A data \in outbox :
       (data \notin outbox' /\ data # ReadyData /\ ~session.isInitialized) =>
         UNCHANGED <<session, calls, messageId, pendingMessages, timers, posted>>

\* C27: the handshake resolves only at the delivery of the message of type
\* "sqlite3-api" with result "worker1-ready"; it resolves at most once (the
\* open request that follows its resolution is posted once, a second ready
\* signal changes nothing); every other message delivered before the ready
\* signal leaves the handshake pending and everything else as it was.
C27_HandshakeOnReady ==
  /\ [](/\ Cardinality(OpenRequests) <= 1
        /\ (session.phase = "opening" \/ session.outcome = "resolved") =>
             session.isInitialized)
  /\ [][C27_Step]_vars

\* the handshake was resolved by the ready signal that answered the start
\* message, the open request is posted, and a second ready signal waits to
\* be delivered
C27_Witness ==
  /\ session.isInitialized
  /\ session.phase = "opening"
  /\ nproc = 1
  /\ posted[2].type = "open"
  /\ ReadyData \in outbox

\* C28: a webSqlite() call that waits for the ready signal of a worker that
\* never gives it and raises no error event is eventually rejected.
C28_StartupTimeout ==
  (session.phase = "handshake") ~> (session.outcome = "rejected")

\* the rejection of the handshake by an error event of the worker
InitializationError == createWorkerError(ErrorEvent, "Worker initialization")

\* an error event raised before the ready signal was received rejects the
\* call with the worker-initialization error, and a rejection is final
C29_Step ==
  /\ (session.worker /\ ~session.faulted /\ session'.faulted
        /\ ~session.isInitialized) =>
       /\ session'.phase = "done"
       /\ session'.outcome = "rejected"
       /\ session'.value = InitializationError
  /\ session.outcome = "rejected" =>
       (session'.outcome = "rejected" /\ session'.value = session.value)

\* C29: when the worker raises an error event before the ready signal has
\* been received, webSqlite() rejects with the WebSQLiteError "Worker
\* initialization: ..." whose cause is the event, and no open request, nor
\* any other request, is ever posted: only the start message was.
C29_StartupError ==
  /\ [](session.value = InitializationError =>
          /\ session.outcome = "rejected"
          /\ session.value.name = "WebSQLiteError"
          /\ session.value.message[1] = "Worker initialization"
          /\ session.value.cause = ErrorEvent
          /\ OpenRequests = {}
          /\ posted = <<StartEnvelope>>
          /\ pendingMessages = << >>
          /\ \A c \in Calls : calls[c] = NoCall)
  /\ [][C29_Step]_vars

\* the worker raised an error event while its ready signal was waiting to be
\* delivered; the ready signal was delivered afterwards
C29_Witness ==
  /\ session.faulted
  /\ session.value = InitializationError
  /\ session.isInitialized
  /\ nproc = 1
  /\ ReadyData \notin outbox

\* C30: every envelope that carries a messageId was posted after the ready
\* signal had been received; the first message posted is the start message,
\* the only one without a messageId; the first envelope with a messageId is
\* the open request for the filename of the call, with vfs "opfs".
C30_NoSendBeforeReady ==
  /\ posted # << >> => posted[1] = StartEnvelope
  /\ \A i \in DOMAIN posted :
       /\ i > 1 => posted[i].messageId = MsgId(i - 1)
       /\ posted[i].messageId # Undefined => session.isInitialized
       /\ posted[i].type \in {"open", "exec", "close"} <=> i > 1
  /\ Len(posted) >= 2 =>
       posted[2] = [type |-> "open",
                    args |-> [filename |-> session.filename, vfs |-> "opfs"],
                    messageId |-> MsgId(1)]
  /\ ~session.isInitialized => (pendingMessages = << >> /\ timers = << >>)

\* after the ready signal and the open request, run() and close() have
\* posted an exec and a close envelope
C30_Witness ==
  /\ session.isInitialized
  /\ Len(posted) = 4
  /\ posted[1] = StartEnvelope
  /\ posted[2].type = "open"
  /\ posted[3].type = "exec"
  /\ posted[4].type = "close"

\* the branch the statement is to take: its declared type, or else the one
\* of the category of its SQL
DeclaredOrClassified(stmt) ==
  IF stmt.type \in {"query", "execute", "run"} THEN stmt.type
  ELSE IF analyzeSqlOperation(stmt.sql) = "select" THEN "query"
  ELSE IF analyzeSqlOperation(stmt.sql) \in {"insert", "update", "delete"}
    THEN "execute"
  ELSE "run"

\* the statements of the transaction call whose envelope has been posted
StatementsSent(call) ==
  IF call.step \in {"", "begin"} THEN 0
  ELSE IF call.failure.at = "validation" THEN call.failure.k - 1
  ELSE IF call.failure.at \in {"statement", "result"} THEN call.failure.k
  ELSE call.idx

\* what a branch pushes for an answered statement
BranchResult(branch, v) ==
  IF branch = "query" THEN IsArray(v)
  ELSE IF branch = "execute"
    THEN /\ v.t = "object"
         /\ v.changes.t = "number"
         /\ v.lastInsertRowid.t \in {"number", "null"}
  ELSE v = Undefined

\* C31: every statement of a transaction is dispatched on the branch of its
\* declared type when it has one, whatever the category of its SQL, and on
\* the branch of that category when it has none: the query branch alone
\* asks the worker for rows, and each branch pushes its own kind of result.
C31_TransactionRouting ==
  \A c \in Calls :
    calls[c].op = "transaction" =>
      LET call == calls[c]
          mine == PostedBy(call)
      IN  /\ StatementsSent(call) <= Len(call.stmts)
          /\ Len(mine) >= 1 + StatementsSent(call)
          /\ \A i \in 1..StatementsSent(call) :
               /\ mine[i + 1].args.sql = call.stmts[i].sql
               /\ (mine[i + 1].args.resultRows = Arr(<<>>))
                    <=> DeclaredOrClassified(call.stmts[i]) = "query"
               /\ mine[i + 1].args.resultRows \in {Arr(<<>>), Undefined}
          /\ \A i \in DOMAIN call.results :
               BranchResult(DeclaredOrClassified(call.stmts[i]), call.results[i])

\* a transaction has resolved whose first statement is a SELECT declared
\* "run" and whose second is an INSERT declared "query"
C31_Witness ==
  /\ calls[1].outcome = "resolved"
  /\ Len(calls[1].stmts) = 2
  /\ calls[1].stmts[1] = [sql |-> SqlSelect, parameters |-> Undefined, type |-> "run"]
  /\ calls[1].stmts[2] = [sql |-> SqlInsert, parameters |-> Undefined, type |-> "query"]
  /\ calls[1].value = Arr(<<Undefined, Arr(<<>>)>>)

\* the places among the envelopes of the call at which it sent the text sql
PlacesOf(call, sql) ==
  {i \in DOMAIN SqlPostedBy(call) : SqlPostedBy(call)[i] = sql}

\* the BEGIN of a transaction() call was answered with success
Began(call) ==
  /\ call.op = "transaction"
  /\ Len(call.settled) >= 1
  /\ call.settled[1]

\* C32 as claimed: a transaction() call whose BEGIN succeeded sends COMMIT at
\* most once and ROLLBACK at most once and never both, and when it has ended
\* it has either resolved with COMMIT sent or rejected with ROLLBACK sent.
C32_StateMachineAsClaimed ==
  \A c \in Calls :
    Began(calls[c]) =>
      LET commits   == PlacesOf(calls[c], SqlCommit)
          rollbacks == PlacesOf(calls[c], SqlRollback)
      IN  /\ Cardinality(commits) <= 1
          /\ Cardinality(rollbacks) <= 1
          /\ commits = {} \/ rollbacks = {}
          /\ calls[c].pc = "done" =>
               \/ calls[c].outcome = "resolved" /\ commits # {}
               \/ calls[c].outcome = "rejected" /\ rollbacks # {}

\* C32, amended: a transaction() call whose BEGIN succeeded sends COMMIT at
\* most once and ROLLBACK at most once, each as the last envelope it has sent
\* so far or, for COMMIT, the last but one with ROLLBACK after it; it sends
\* both exactly when the COMMIT request was rejected; when it has ended it
\* has either resolved, with COMMIT answered with success and no ROLLBACK
\* sent, or rejected, with ROLLBACK sent last.
C32_StateMachine ==
  \A c \in Calls :
    Began(calls[c]) =>
      LET call      == calls[c]
          n         == Len(SqlPostedBy(call))
          commits   == PlacesOf(call, SqlCommit)
          rollbacks == PlacesOf(call, SqlRollback)
      IN  /\ Cardinality(commits) <= 1
          /\ Cardinality(rollbacks) <= 1
          /\ rollbacks \subseteq {n}
          /\ commits \subseteq {n - 1, n}
          /\ (commits # {} /\ rollbacks # {}) <=>
               (call.failure.at = "commit" /\ commits = {n - 1}
                  /\ call.settled[n - 1] = FALSE)
          /\ call.pc = "done" =>
               \/ /\ call.outcome = "resolved"
                  /\ commits = {n}
                  /\ rollbacks = {}
                  /\ call.settled[n]
               \/ /\ call.outcome = "rejected"
                  /\ rollbacks = {n}

\* COMMIT was rejected, ROLLBACK was sent after it, and the call has
\* rejected
C32_Witness ==
  /\ Began(calls[1])
  /\ calls[1].outcome = "rejected"
  /\ calls[1].failure.at = "commit"
  /\ PlacesOf(calls[1], SqlCommit) = {3}
  /\ PlacesOf(calls[1], SqlRollback) = {4}

\* C37: when BEGIN and every statement of a transaction() call succeeded and
\* the COMMIT request was rejected (a failure message or its timeout), the
\* call sends ROLLBACK after COMMIT and nothing else, waits for it, and
\* rejects with the COMMIT error in transaction-execution context; the
\* results it collected are not returned.
C37_CommitFailure ==
  \A c \in Calls :
    (calls[c].op = "transaction" /\ calls[c].failure.at = "commit") =>
      LET call == calls[c]
          n    == Len(call.stmts)
      IN  /\ SqlPostedBy(call) =
               <<SqlBegin>> \o StmtSqls(call, n) \o <<SqlCommit, SqlRollback>>
          /\ Len(call.results) = n
          /\ \A i \in 1..(n + 1) : call.settled[i]
          /\ call.settled[n + 2] = FALSE
          /\ call.error.message[1] = "SQL execution"
          /\ call.error.cause \in RejectionsOf(call.sent[n + 2])
          /\ call.pc \in {"await", "done"}
          /\ call.pc = "await" => call.step = "rollback"
          /\ call.pc = "done" =>
               /\ Len(call.settled) = n + 3
               /\ call.outcome = "rejected"
               /\ call.value =
                    createWorkerError(call.error, "Transaction execution")
               /\ call.value # Arr(call.results)

\* both statements succeeded, the worker answered COMMIT with a failure, and
\* the call has rejected after a ROLLBACK that succeeded
C37_Witness ==
  /\ calls[1].op = "transaction"
  /\ calls[1].failure.at = "commit"
  /\ Len(calls[1].stmts) = 2
  /\ calls[1].settled = <<TRUE, TRUE, TRUE, FALSE, TRUE>>
  /\ calls[1].outcome = "rejected"
  /\ Truthy(replied[calls[1].sent[4]].error)
  /\ calls[1].error.cause =
       createWorkerError(replied[calls[1].sent[4]].error, "Worker execution")

\* C36: when the BEGIN TRANSACTION request of a transaction() call is
\* rejected (a failure message of the worker or its timeout), the call
\* rejects at once with that error in SQL-execution context, and BEGIN is
\* the only envelope it ever sends: no statement, no COMMIT, no ROLLBACK.
C36_BeginFailure ==
  \A c \in Calls :
    (/\ calls[c].op = "transaction"
     /\ Len(calls[c].settled) >= 1
     /\ ~calls[c].settled[1]) =>
      /\ SqlPostedBy(calls[c]) = <<SqlBegin>>
      /\ Len(calls[c].sent) = 1
      /\ calls[c].settled = <<FALSE>>
      /\ calls[c].results = << >>
      /\ calls[c].pc = "done"
      /\ calls[c].outcome = "rejected"
      /\ calls[c].value.name = "WebSQLiteError"
      /\ calls[c].value.message[1] = "SQL execution"
      /\ calls[c].value.cause \in RejectionsOf(calls[c].sent[1])
      /\ OutstandingOf(c) = {}

\* BEGIN of a transaction of two statements timed out; the worker has
\* executed it since and its answer was delivered
C36_Witness ==
  /\ calls[1].op = "transaction"
  /\ Len(calls[1].stmts) = 2
  /\ calls[1].settled = <<FALSE>>
  /\ calls[1].value.cause = WebSQLiteError("Worker operation timeout")
  /\ calls[1].sent[1] \in DOMAIN replied
  /\ ~Truthy(replied[calls[1].sent[1]].error)
  /\ outbox = {}
  /\ db.inTxn

\* C33: once a close() has resolved, the worker of the session has been
\* terminated.
C33_CloseReleasesWorker ==
  \A c \in Calls :
    (calls[c].op = "close" /\ calls[c].outcome = "resolved") => ~session.worker

\* no request is outstanding and no call awaits one
AllSettled ==
  /\ pendingMessages = << >>
  /\ \A c \in Calls : calls[c].pc # "await"

\* C34: every request in the pending map is eventually taken out of it and
\* the call that awaits it goes on, whether the worker answers, answers
\* after the timer, never answers or raises an error event: whatever has
\* been posted, a state with no request outstanding is reached again.
C34_EverySettles == []<>AllSettled

\* the worker raised an error event before it answered, and the request was
\* rejected by its timer
C34_Witness ==
  /\ session.faulted
  /\ nproc = 2
  /\ calls[1].op = "query"
  /\ calls[1].outcome = "rejected"
  /\ calls[1].value.cause = WebSQLiteError("Worker operation timeout")
  /\ pendingMessages = << >>

\* the messageIds of the requests that were posted and whose promise has
\* not been settled: a call has been woken once for each of the first
\* requests it sent, and webSqlite() awaits its open request while opening
Unsettled ==
  UNION {{calls[c].sent[i] : i \in (Len(calls[c].settled) + 1)..Len(calls[c].sent)}
           : c \in Calls}
  \cup (IF session.phase = "opening" THEN Range(session.sent) ELSE {})

\* C35: the pending map holds exactly the messageIds of the requests that
\* were posted and have not been settled by an answer or a timer, each under
\* the call that awaits it; when no call awaits a request, it is empty.
C35_PendingMapExact ==
  /\ DOMAIN pendingMessages = Unsettled
  /\ Unsettled \subseteq Range(IssuedIds)
  /\ \A c \in Calls :
       calls[c].pc = "await" <=> (\E id \in DOMAIN pendingMessages :
                                    pendingMessages[id] = c)
  /\ \A id \in DOMAIN pendingMessages :
       pendingMessages[id] \in Calls => calls[pendingMessages[id]].msgId = id
  /\ (\A c \in Calls : calls[c].pc # "await") => pendingMessages = << >>

\* one request was rejected by its timer, the other resolved by its answer,
\* and the late answer to the first has been delivered: the map is empty
C35_Witness ==
  /\ calls[1].settled = <<FALSE>>
  /\ calls[2].settled = <<TRUE>>
  /\ calls[1].sent[1] \in DOMAIN replied
  /\ replied[calls[1].sent[1]] \notin outbox
  /\ pendingMessages = << >>
  /\ Len(IssuedIds) = 3

\* the messageIds of the timers that run in this step
TimersRun == {timers[i].id : i \in 1..Len(timers)} \ {timers'[i].id : i \in 1..Len(timers')}

\* an error event after the ready signal changes nothing but the worker, and
\* an entry leaves the pending map only when a message that carries its
\* messageId is delivered or when its own timer runs
C39_Step ==
  /\ (session.isInitialized /\ ~session.faulted /\ session'.faulted) =>
       /\ UNCHANGED <<calls, messageId, pendingMessages, timers, posted>>
       /\ session' = [session EXCEPT !.faulted = TRUE]
  /\ \A id \in DOMAIN pendingMessages \ DOMAIN pendingMessages' :
       \/ \E data \in outbox \ outbox' : data.messageId = id
       \/ id \in TimersRun

\* C39: an error event the worker raises after the ready signal was
\* received settles no request and leaves the pending map, the id counter,
\* the timers and every call as they were; the requests outstanding then are
\* settled only by a message carrying their messageId or by their own timer.
C39_FaultAfterHandshake == [][C39_Step]_vars

\* the worker answered the first request and raised an error event before
\* it answered the second: the first has resolved, the second is still in
\* the pending map
C39_Witness ==
  /\ session.faulted
  /\ session.isInitialized
  /\ nproc = 3
  /\ calls[1].outcome = "resolved"
  /\ calls[2].pc = "await"
  /\ calls[2].msgId \in DOMAIN pendingMessages

\* the text without the whitespace around it, in lower case
Normalized(sql) == ToLowerCase(Trim(sql))

\* the text begins, after trimming and lower-casing, with the keyword
\* select, and whitespace follows the keyword there
SelectThenSpace(sql) ==
  LET n == Normalized(sql)
  IN  /\ Len(n) >= 7
      /\ SubSeq(n, 1, 6) = KwSelect
      /\ n[7] \in Whitespace

\* C40: a text that begins with the keyword select is classified select
\* only when, trimmed and in lower case, it has whitespace right after the
\* keyword; the keyword alone (also with whitespace after it that the
\* trimming removes) or followed directly by another character is
\* classified utility: query() and queryOne() reject it as an operation-type
\* mismatch without posting, and run() posts it.
C40_KeywordBoundary ==
  /\ \A sql \in BoundaryTexts :
       analyzeSqlOperation(sql) =
         IF SelectThenSpace(sql) THEN "select" ELSE "utility"
  /\ \A c \in Calls :
       (calls[c].op \in {"query", "queryOne", "run"}
          /\ ~SelectThenSpace(calls[c].sql)) =>
         IF calls[c].op = "run"
           THEN /\ Len(calls[c].sent) = 1
                /\ PostedBy(calls[c])[1].args.sql = calls[c].sql
                /\ calls[c].pc = "done" => calls[c].value # UseQuery
           ELSE /\ calls[c].sent = << >>
                /\ calls[c].outcome = "rejected"
                /\ calls[c].value = ExpectedSelect("utility")
                /\ calls[c].value.message[1] = "SQL operation type mismatch"
  /\ \A c \in Calls :
       (calls[c].op \in {"query", "queryOne", "run"}
          /\ SelectThenSpace(calls[c].sql)) =>
         IF calls[c].op = "run"
           THEN calls[c].sent = << >> /\ calls[c].value = UseQuery
           ELSE Len(calls[c].sent) = 1

\* run("select(1)") was posted and has resolved
C40_Witness ==
  /\ calls[1].op = "run"
  /\ calls[1].sql = <<"s","e","l","e","c","t","(","1",")">>
  /\ Len(calls[1].sent) = 1
  /\ calls[1].outcome = "resolved"

\* the state the first session keeps and the state the second keeps
FirstRegistry == <<calls, messageId, pendingMessages, timers, posted, session>>

\* a step in which a message of one worker is delivered or a timer of one
\* session runs leaves the calls, the pending map, the id counter and the
\* timers of the other session as they were
C38_Step ==
  /\ second' # second => UNCHANGED <<FirstRegistry, outbox, nproc>>
  /\ FirstRegistry' # FirstRegistry => second' = second

\* C38: the two sessions give their requests the same messageIds, each
\* from its own counter, and keep them in their own pending maps; no step
\* of one session (an answer of its worker, a timer of its promiser) settles
\* or removes a request of the other, and each call is settled under the
\* messageId its own session gave it.
C38_SessionsIndependent ==
  /\ [](/\ second.P.messageId = Len(second.P.posted) - 1
        /\ messageId = Len(posted) - 1
        /\ DOMAIN second.P.pending =
             (IF second.call.pc = "await" THEN {second.call.msgId} ELSE {})
        /\ DOMAIN pendingMessages =
             {calls[c].msgId : c \in {d \in Calls : calls[d].pc = "await"}}
        /\ Len(second.call.settled) <= 1
        /\ \A c \in Calls : Len(calls[c].settled) <= 1)
  /\ [][C38_Step]_vars

\* both sessions have sent a request msg-2; the worker of the second has
\* answered and its call has resolved, while the request of the first is
\* still pending and its worker has not answered
C38_Witness ==
  /\ calls[1].pc = "await"
  /\ calls[1].msgId = MsgId(2)
  /\ MsgId(2) \in DOMAIN pendingMessages
  /\ nproc = 2
  /\ second.call.sent = <<MsgId(2)>>
  /\ second.call.outcome = "resolved"
  /\ second.P.pending = << >>

=============================================================================
